---- MODULE Spec2Model ----
(***************************************************************************)
(* Model of the session ("coat hanger") store, the logic-layer             *)
(* authentication service, the route guards and the optimistic-locking     *)
(* profile update of tylerthibault/webtemplate.                            *)
(*                                                                         *)
(* Time.  Timestamps are integers in the unit of SESSION_TIMEOUT_SECONDS   *)
(* (seconds).  `now` is the reading of datetime.utcnow().  A handler reads *)
(* the clock once.  Wait lets time pass between requests.  A commit of a   *)
(* `user` row leaves the clock one tick later: the clock's resolution is   *)
(* finer than the duration of a commit, so the next reading is greater     *)
(* than the updated_at just written.  Session timestamps are only compared *)
(* against the 600 s window, where that tick makes no difference, and the  *)
(* session handlers leave the clock as it is.                              *)
(*                                                                         *)
(* Text.  Strings are sequences of one-character strings, so that strip(), *)
(* lower() and len() are computed and not assumed.                         *)
(***************************************************************************)
EXTENDS Integers, Sequences, FiniteSets, TLC

VARIABLES
    now,            \* datetime.utcnow()
    users,          \* table `user`: id -> row
    coat_hanger,    \* table `coat_hanger`: set of rows, session_hash unique
    flask_session,  \* the signed cookie session of each client
    next_hash,      \* number of session hashes generated so far
    issued,         \* history: issued[h] is the user session hash h was issued to
    inflight,       \* per client: a login request between its two commits
    commits,        \* number of committed updates of `user` rows
    contact_message, \* table `contact_message`: the rows in the order of their ids
    resp            \* the last response (what the caller observed)

vars == <<now, users, coat_hanger, flask_session, next_hash, issued, inflight,
          commits, contact_message, resp>>

----------------------------------------------------------------------------
(* Bounds of the model *)

MaxTime == 1200
MaxHashes == 2
MaxCommits == 2

Clients == {1, 2}
Delays == {300, 599}

----------------------------------------------------------------------------
(* Program constants *)

SESSION_TIMEOUT_SECONDS == 600

----------------------------------------------------------------------------
(* Text helpers: str.strip(), str.lower() *)

Whitespace == {" ", "\t", "\n"}

IsSpace(ch) == ch \in Whitespace

RECURSIVE lstrip(_)
lstrip(s) == IF s # <<>> /\ IsSpace(Head(s)) THEN lstrip(Tail(s)) ELSE s

RECURSIVE rstrip(_)
rstrip(s) ==
    IF s # <<>> /\ IsSpace(s[Len(s)]) THEN rstrip(SubSeq(s, 1, Len(s) - 1)) ELSE s

strip(s) == rstrip(lstrip(s))

Upper == <<"A", "B", "C", "D", "E", "F", "G", "H", "I", "J", "K", "L", "M",
           "N", "O", "P", "Q", "R", "S", "T", "U", "V", "W", "X", "Y", "Z">>
LowerOf == <<"a", "b", "c", "d", "e", "f", "g", "h", "i", "j", "k", "l", "m",
             "n", "o", "p", "q", "r", "s", "t", "u", "v", "w", "x", "y", "z">>

lower_char(ch) ==
    IF \E i \in DOMAIN Upper : Upper[i] = ch
    THEN LowerOf[CHOOSE i \in DOMAIN Upper : Upper[i] = ch]
    ELSE ch

lower(s) == [i \in DOMAIN s |-> lower_char(s[i])]

----------------------------------------------------------------------------
(* Values used as inputs and seed data *)

EmailA == <<"a", "@", "x", ".", "i", "o">>
EmailB == <<"b", "@", "x", ".", "i", "o">>
EmailC == <<"c", "@", "x", ".", "i", "o">>
EmailAMixed == <<" ", "A", "@", "x", ".", "i", "o">>

PwA == <<"P", "a", "s", "s", "w", "0", "r", "d">>
PwB == <<"P", "a", "s", "s", "w", "1", "r", "d">>

NameA == <<"A", "l">>
NameB == <<"B", "o">>

UserIds == {1, 2}
NoUser == 0
NoHash == 0

\* bcrypt.hashpw(password, gensalt()): the hash binds the password and a salt
hash_password(password, salt) == [pw |-> password, salt |-> salt]

\* AuthService.verify_password: bcrypt.checkpw
verify_password(password, password_hash) == password = password_hash.pw

SeedUser(email, name, pw) ==
    [email |-> email, full_name |-> name, password_hash |-> hash_password(pw, 0),
     bio |-> <<>>, profile_picture_data |-> {}, profile_picture_mime_type |-> "",
     created_at |-> 0, updated_at |-> 0]

NoToken == 0

\* The Flask session: session.clear() leaves every key absent
EmptySession ==
    [session_hash |-> NoHash, user_id |-> NoUser, user_email |-> <<>>,
     user_name |-> <<>>, csrf_token |-> NoToken]

\* The text of a timestamp: not ISO 8601 ("garbage"), empty, or a wall-clock
\* reading with or without a UTC offset ("Z" is the offset 0)
NoTimestamp == [kind |-> "empty", wall |-> 0, aware |-> FALSE, off |-> 0]

\* A JSON body of POST /settings: an absent key is {}, a present one {value}
NoData ==
    [full_name |-> {}, email |-> {}, bio |-> {}, password |-> {},
     profile_picture_data |-> {}, remove_profile_picture |-> FALSE,
     updated_at |-> NoTimestamp, current_password |-> {}]

NoResp ==
    [op |-> "none", client |-> 0, status |-> 0, authenticated |-> FALSE,
     hash |-> NoHash, user_id |-> NoUser, found |-> "none", count |-> 0,
     outcome |-> "none", data |-> NoData, errors |-> {}, current_data |-> {},
     notified |-> {}]

Init ==
    /\ now = 0
    /\ users = [u \in UserIds |->
                  IF u = 1 THEN SeedUser(EmailA, NameA, PwA)
                           ELSE SeedUser(EmailB, NameB, PwB)]
    /\ coat_hanger = {}
    /\ flask_session = [c \in Clients |-> EmptySession]
    /\ next_hash = 0
    /\ issued = <<>>
    /\ inflight = [c \in Clients |-> NoUser]
    /\ commits = 0
    /\ contact_message = <<>>
    /\ resp = NoResp

----------------------------------------------------------------------------
(* models/user.py *)

\* User.find_by_email: filter_by(email=email).first()
find_by_email(tbl, email) ==
    IF \E u \in DOMAIN tbl : tbl[u].email = email
    THEN CHOOSE u \in DOMAIN tbl : tbl[u].email = email
    ELSE NoUser

----------------------------------------------------------------------------
(* models/coat_hanger.py *)

\* Variant of is_expired whose window is still open at exactly 600 s
is_expired_after(row, t) == t > row.updated_at + SESSION_TIMEOUT_SECONDS

\* CoatHanger.is_expired, evaluated at clock reading t
is_expired(row, t) == t >= row.updated_at + SESSION_TIMEOUT_SECONDS

\* Variant of renew that leaves the row as it is
renew_untouched(tbl, row, t) == tbl

\* CoatHanger.renew: updated_at = utcnow(); save()
renew(tbl, row, t) == (tbl \ {row}) \cup {[row EXCEPT !.updated_at = t]}

\* CoatHanger.find_by_session_hash: the row found (or none) and the table left
\* behind by the lazy deletion of an expired row
find_by_session_hash(tbl, h, t) ==
    LET m == {r \in tbl : r.session_hash = h} IN
    IF m = {} THEN [row |-> {}, table |-> tbl, found |-> "missing"]
    ELSE LET r == CHOOSE x \in m : TRUE IN
         IF is_expired(r, t)
         THEN [row |-> {}, table |-> tbl \ {r}, found |-> "expired"]
         ELSE [row |-> {r}, table |-> tbl, found |-> "live"]

\* Variant of the sweep's filter with half the window
expired_sessions_half_window(tbl, t) ==
    {r \in tbl : r.updated_at < t - (SESSION_TIMEOUT_SECONDS \div 2)}

\* CoatHanger.cleanup_expired_sessions: the rows the sweep deletes
expired_sessions(tbl, t) ==
    {r \in tbl : r.updated_at < t - SESSION_TIMEOUT_SECONDS}

\* CoatHanger.delete_user_sessions
delete_user_sessions(tbl, user_id) == {r \in tbl : r.user_id # user_id}

----------------------------------------------------------------------------
(* logic/auth_service.py *)

\* Variant of generate_session_hash that issues the latest token again
generate_session_hash_again == IF next_hash = 0 THEN 1 ELSE next_hash

\* AuthService.generate_session_hash: sha256 over 24 fresh random bytes, the
\* user id and the timestamp; every call yields a hash not issued before
generate_session_hash == next_hash + 1

\* AuthService.create_session, the row it inserts
new_coat_hanger(user_id, h, t) ==
    [user_id |-> user_id, session_hash |-> h,
     user_data |-> [email |-> users[user_id].email,
                    full_name |-> users[user_id].full_name, id_key |-> "user_id"],
     created_at |-> t, updated_at |-> t]

\* Variant of create_session that keeps the user's earlier rows
create_session_keep(tbl, user_id, h, t) ==
    tbl \cup {new_coat_hanger(user_id, h, t)}

\* AuthService.create_session: delete the user's rows, then insert the new one
create_session(tbl, user_id, h, t) ==
    delete_user_sessions(tbl, user_id) \cup {new_coat_hanger(user_id, h, t)}

\* AuthService.authenticate_user up to the credential checks: the user id on
\* success, NoUser for an unknown email or a wrong password
check_credentials(email, password) ==
    LET u == find_by_email(users, strip(lower(email))) IN
    IF u = NoUser THEN NoUser
    ELSE IF ~verify_password(password, users[u].password_hash) THEN NoUser
    ELSE u

\* Variant of is_authenticated that takes any row with the caller's token,
\* expired or not
is_authenticated_unexpiring(c) ==
    LET h == flask_session[c].session_hash IN
    [ok |-> h # NoHash /\ \E r \in coat_hanger : r.session_hash = h,
     table |-> coat_hanger,
     found |-> IF h # NoHash /\ \E r \in coat_hanger : r.session_hash = h
               THEN "live" ELSE "none"]

\* AuthService.is_authenticated: result and table left behind
is_authenticated(c) ==
    LET h == flask_session[c].session_hash IN
    IF h = NoHash
    THEN [ok |-> FALSE, table |-> coat_hanger, found |-> "none"]
    ELSE LET f == find_by_session_hash(coat_hanger, h, now) IN
         [ok |-> f.row # {}, table |-> f.table, found |-> f.found]

\* AuthService.get_current_user: the user (or NoUser), the table and the
\* cookie session left behind
get_current_user(tbl, c) ==
    LET h == flask_session[c].session_hash IN
    IF h = NoHash
    THEN [user |-> NoUser, table |-> tbl, cookie |-> flask_session[c],
          found |-> "none"]
    ELSE LET f == find_by_session_hash(tbl, h, now) IN
         IF f.row = {}
         THEN [user |-> NoUser, table |-> f.table, cookie |-> EmptySession,
               found |-> f.found]
         ELSE LET r == CHOOSE x \in f.row : TRUE IN
              [user |-> r.user_id, table |-> renew(f.table, r, now),
               cookie |-> flask_session[c], found |-> "live"]

----------------------------------------------------------------------------
(* Requests *)

\* logic/decorators.py login_required: the status of the rejection
Unauthenticated(wants_json) == IF wants_json THEN 401 ELSE 302

\* Variant of logout_user that clears the cookie session only
logout_user_cookie_only(tbl, c) ==
    [success |-> flask_session[c].session_hash # NoHash, table |-> tbl,
     cookie |-> IF flask_session[c].session_hash = NoHash
                THEN flask_session[c] ELSE EmptySession]

\* AuthService.logout_user: outcome, table and cookie session left behind
logout_user(tbl, c) ==
    LET h == flask_session[c].session_hash IN
    IF h = NoHash
    THEN [success |-> FALSE, table |-> tbl, cookie |-> flask_session[c]]
    ELSE LET f == find_by_session_hash(tbl, h, now) IN
         [success |-> TRUE, table |-> f.table \ f.row, cookie |-> EmptySession]

\* POST /auth/login up to the credential checks: guest_only turns an
\* authenticated caller away (302), the controller rejects an empty field
\* (400), AuthService.authenticate_user an unknown email or a wrong password
\* (401); 0 when the request goes on to create a session
login_refusal(c, email, password) ==
    IF is_authenticated(c).ok THEN 302
    ELSE IF email = <<>> \/ password = <<>> THEN 400
    ELSE IF check_credentials(email, password) = NoUser THEN 401
    ELSE 0

\* The response and the state left behind by a refused login
LoginRefused(c, email, password) ==
    /\ coat_hanger' = is_authenticated(c).table
    /\ resp' = [NoResp EXCEPT !.op = "login", !.client = c,
                              !.status = login_refusal(c, email, password),
                              !.found = is_authenticated(c).found]
    /\ UNCHANGED <<contact_message, now, users, flask_session, next_hash, issued, inflight, commits>>

\* The response of a login that created session h for user u
LoginResponse(c, u, h, found) ==
    [NoResp EXCEPT !.op = "login", !.client = c, !.status = 200,
                   !.authenticated = TRUE, !.hash = h, !.user_id = u,
                   !.found = found]

\* POST /auth/login served without interleaving: guest_only, the controller's
\* field checks, AuthService.authenticate_user and AuthService.create_session
Login(c, email, password) ==
    /\ inflight[c] = NoUser
    /\ IF login_refusal(c, email, password) # 0
       THEN LoginRefused(c, email, password)
       ELSE LET u == check_credentials(email, password)
                h == generate_session_hash
            IN
            /\ next_hash < MaxHashes
            /\ coat_hanger' = create_session(is_authenticated(c).table, u, h, now)
            /\ next_hash' = h
            /\ issued' = Append(issued, u)
            /\ flask_session' =
                 [flask_session EXCEPT ![c].session_hash = h, ![c].user_id = u]
            /\ resp' = LoginResponse(c, u, h, is_authenticated(c).found)
            /\ UNCHANGED <<contact_message, now, users, inflight, commits>>

\* POST /auth/login served by concurrent workers, first part: everything up
\* to and including the committed CoatHanger.delete_user_sessions of
\* create_session
LoginBegin(c, email, password) ==
    /\ inflight[c] = NoUser
    /\ IF login_refusal(c, email, password) # 0
       THEN LoginRefused(c, email, password)
       ELSE LET u == check_credentials(email, password) IN
            /\ next_hash < MaxHashes
            /\ coat_hanger' = delete_user_sessions(is_authenticated(c).table, u)
            /\ inflight' = [inflight EXCEPT ![c] = u]
            /\ resp' = [NoResp EXCEPT !.op = "login_begin", !.client = c]
            /\ UNCHANGED <<contact_message, now, users, flask_session, next_hash, issued, commits>>

\* POST /auth/login served by concurrent workers, second part: the rest of
\* create_session (generate the hash, insert and commit the row, set the
\* cookie session)
LoginFinish(c) ==
    /\ inflight[c] # NoUser
    /\ next_hash < MaxHashes
    /\ LET u == inflight[c]
           h == generate_session_hash
       IN
       /\ coat_hanger' = coat_hanger \cup {new_coat_hanger(u, h, now)}
       /\ next_hash' = h
       /\ issued' = Append(issued, u)
       /\ flask_session' =
            [flask_session EXCEPT ![c].session_hash = h, ![c].user_id = u]
       /\ inflight' = [inflight EXCEPT ![c] = NoUser]
       /\ resp' = LoginResponse(c, u, h, "none")
       /\ UNCHANGED <<contact_message, now, users, commits>>

\* GET /auth/session: AuthService.check_session_status
SessionStatus(c) ==
    LET g == get_current_user(coat_hanger, c) IN
    /\ coat_hanger' = g.table
    /\ flask_session' = [flask_session EXCEPT ![c] = g.cookie]
    /\ resp' = [NoResp EXCEPT !.op = "session", !.client = c, !.status = 200,
                              !.authenticated = (g.user # NoUser),
                              !.hash = flask_session[c].session_hash,
                              !.user_id = g.user, !.found = g.found]
    /\ UNCHANGED <<contact_message, now, users, next_hash, issued, inflight, commits>>

\* GET /dashboard: login_required, then AuthService.get_current_user
Dashboard(c, wants_json) ==
    LET a == is_authenticated(c) IN
    IF ~a.ok
    THEN /\ coat_hanger' = a.table
         /\ resp' = [NoResp EXCEPT !.op = "dashboard", !.client = c,
                                   !.status = Unauthenticated(wants_json),
                                   !.hash = flask_session[c].session_hash,
                                   !.found = a.found]
         /\ UNCHANGED <<contact_message, now, users, flask_session, next_hash, issued, inflight, commits>>
    ELSE LET g == get_current_user(a.table, c) IN
         /\ coat_hanger' = g.table
         /\ flask_session' = [flask_session EXCEPT ![c] = g.cookie]
         /\ resp' = [NoResp EXCEPT !.op = "dashboard", !.client = c, !.status = 200,
                                   !.authenticated = TRUE,
                                   !.hash = flask_session[c].session_hash,
                                   !.user_id = g.user, !.found = a.found]
         /\ UNCHANGED <<contact_message, now, users, next_hash, issued, inflight, commits>>

\* GET /settings: login_required, then ProfileService.get_user_profile
GetSettings(c, wants_json) ==
    LET a == is_authenticated(c) IN
    /\ coat_hanger' = a.table
    /\ resp' = [NoResp EXCEPT !.op = "get_settings", !.client = c,
                              !.status = IF a.ok THEN 200
                                         ELSE Unauthenticated(wants_json),
                              !.authenticated = a.ok,
                              !.hash = flask_session[c].session_hash,
                              !.user_id = IF a.ok THEN flask_session[c].user_id
                                          ELSE NoUser,
                              !.found = a.found]
    /\ UNCHANGED <<contact_message, now, users, flask_session, next_hash, issued, inflight, commits>>

\* POST /auth/logout: login_required, then AuthService.logout_user
Logout(c, wants_json) ==
    LET a == is_authenticated(c) IN
    IF ~a.ok
    THEN /\ coat_hanger' = a.table
         /\ resp' = [NoResp EXCEPT !.op = "logout", !.client = c,
                                   !.status = Unauthenticated(wants_json),
                                   !.hash = flask_session[c].session_hash,
                                   !.found = a.found]
         /\ UNCHANGED <<contact_message, now, users, flask_session, next_hash, issued, inflight, commits>>
    ELSE LET l == logout_user(a.table, c) IN
         /\ coat_hanger' = l.table
         /\ flask_session' = [flask_session EXCEPT ![c] = l.cookie]
         /\ resp' = [NoResp EXCEPT !.op = "logout", !.client = c,
                                   !.status = IF l.success THEN 200 ELSE 401,
                                   !.hash = flask_session[c].session_hash,
                                   !.found = a.found]
         /\ UNCHANGED <<contact_message, now, users, next_hash, issued, inflight, commits>>

\* SessionCleanupScheduler.cleanup_expired_sessions: the periodic sweep
Sweep ==
    /\ coat_hanger' = coat_hanger \ expired_sessions(coat_hanger, now)
    /\ resp' = [NoResp EXCEPT !.op = "sweep",
                              !.count = Cardinality(expired_sessions(coat_hanger, now))]
    /\ UNCHANGED <<contact_message, now, users, flask_session, next_hash, issued, inflight, commits>>

\* Time passes between requests
Wait(d) ==
    /\ now + d <= MaxTime
    /\ now' = now + d
    /\ resp' = [NoResp EXCEPT !.op = "wait"]
    /\ UNCHANGED <<contact_message, users, coat_hanger, flask_session, next_hash, issued, inflight, commits>>

LoginEmails == {EmailA, EmailAMixed, EmailB, EmailC, <<>>}
LoginPasswords == {PwA, PwB, <<>>}

Next ==
    \/ \E c \in Clients, e \in LoginEmails, p \in LoginPasswords : Login(c, e, p)
    \/ \E c \in Clients : SessionStatus(c)
    \/ \E c \in Clients, j \in BOOLEAN : Dashboard(c, j)
    \/ \E c \in Clients, j \in BOOLEAN : GetSettings(c, j)
    \/ \E c \in Clients, j \in BOOLEAN : Logout(c, j)
    \/ Sweep
    \/ \E d \in Delays : Wait(d)

Spec == Init /\ [][Next]_vars

----------------------------------------------------------------------------
(* Properties of the session store, checked under Spec *)

RowsOfHash(tbl, h) == {r \in tbl : r.session_hash = h}
RowsOfUser(tbl, u) == {r \in tbl : r.user_id = u}

\* The requests that look the caller's token up with find_by_session_hash
LookupOps == {"login", "session", "dashboard", "get_settings", "logout"}

C2_LiveCheckRenews ==
    [][\A c \in Clients :
         LET h == flask_session[c].session_hash IN
         \A r \in RowsOfHash(coat_hanger, h) :
           (/\ resp'.client = c
            /\ resp'.op \in {"session", "dashboard"}
            /\ h # NoHash
            /\ now - r.updated_at < SESSION_TIMEOUT_SECONDS)
           => /\ resp'.authenticated
              /\ resp'.user_id = r.user_id
              /\ RowsOfHash(coat_hanger', h) = {[r EXCEPT !.updated_at = now]}
              /\ flask_session'[c] = flask_session[c]]_vars

\* C2 witness: a session check accepted and renewed a row created more than
\* one window ago
C2_Witness ==
    /\ resp.op = "session"
    /\ resp.authenticated
    /\ \E r \in RowsOfHash(coat_hanger, resp.hash) :
          /\ r.updated_at = now
          /\ now - r.created_at > SESSION_TIMEOUT_SECONDS

\* C3 (as claimed): whenever login_required admits a request through
\* AuthService.is_authenticated, the row's updated_at is the current time
\* afterwards.
C3_GuardRenews ==
    [][\A c \in Clients :
         (/\ resp'.client = c
          /\ resp'.op = "get_settings"
          /\ resp'.authenticated)
         => \E r \in RowsOfHash(coat_hanger', flask_session[c].session_hash) :
               r.updated_at = now]_vars

\* C4: after a successful login the user has exactly one row, it carries the
\* token that login returned, that token is the user's most recently issued
\* one, and no row carries a token issued to the same user earlier; at all
\* times a user has at most one row and it carries the user's latest token.
LatestHash(u) ==
    CHOOSE h \in DOMAIN issued :
        issued[h] = u /\ \A k \in DOMAIN issued : issued[k] = u => k <= h

C4_SingleSessionAfterLogin ==
    /\ \A u \in UserIds : Cardinality(RowsOfUser(coat_hanger, u)) <= 1
    /\ \A r \in coat_hanger :
          /\ r.session_hash \in DOMAIN issued
          /\ issued[r.session_hash] = r.user_id
          /\ r.session_hash = LatestHash(r.user_id)
    /\ (resp.op = "login" /\ resp.status = 200) =>
          /\ Cardinality(RowsOfUser(coat_hanger, resp.user_id)) = 1
          /\ \A r \in RowsOfUser(coat_hanger, resp.user_id) :
                r.session_hash = resp.hash
          /\ resp.hash = LatestHash(resp.user_id)
          /\ \A h \in DOMAIN issued :
                (issued[h] = resp.user_id /\ h # resp.hash)
                => RowsOfHash(coat_hanger, h) = {}

\* C4 witness: the second login of the same user, made while the row of the
\* first login was still live
C4_Witness ==
    /\ resp.op = "login"
    /\ resp.status = 200
    /\ resp.hash = 2
    /\ issued = <<resp.user_id, resp.user_id>>
    /\ now < SESSION_TIMEOUT_SECONDS
    /\ Cardinality(coat_hanger) = 1

\* C10: a successful logout leaves no row with the caller's token, leaves the
\* client without a token and leaves every other row as it was; a client
\* without a token is answered "not authenticated" by every check, and only a
\* successful login gives it a token again.
C10_LogoutEndsSession ==
    [][\A c \in Clients :
         LET h == flask_session[c].session_hash IN
         /\ (resp'.client = c /\ resp'.op = "logout" /\ resp'.status = 200)
            => /\ h # NoHash
               /\ RowsOfHash(coat_hanger', h) = {}
               /\ flask_session'[c] = EmptySession
               /\ coat_hanger' = coat_hanger \ RowsOfHash(coat_hanger, h)
         /\ (resp'.client = c /\ h = NoHash
             /\ resp'.op \in {"session", "dashboard", "get_settings", "logout"})
            => /\ ~resp'.authenticated
               /\ (resp'.op # "session") => resp'.status \in {401, 302}
         /\ (h = NoHash /\ flask_session'[c].session_hash # NoHash)
            => resp'.client = c /\ resp'.op = "login" /\ resp'.status = 200]_vars

\* C10 witness: a logout succeeded while another client's session row exists
C10_Witness ==
    /\ resp.op = "logout"
    /\ resp.status = 200
    /\ flask_session[resp.client] = EmptySession
    /\ RowsOfHash(coat_hanger, resp.hash) = {}
    /\ \E r \in coat_hanger : r.session_hash # resp.hash

\* C11: a logout request whose token names no session row is answered with
\* success (200) and leaves the client without a token; a logout request
\* without a token is refused; neither deletes a session row.
C11_LogoutIdempotent ==
    [][\A c \in Clients :
         LET h == flask_session[c].session_hash IN
         (resp'.client = c /\ resp'.op = "logout")
         => /\ (h # NoHash /\ RowsOfHash(coat_hanger, h) = {})
               => /\ resp'.status = 200
                  /\ flask_session'[c] = EmptySession
                  /\ coat_hanger' = coat_hanger
            /\ (h = NoHash)
               => /\ resp'.status # 200
                  /\ coat_hanger' = coat_hanger]_vars

\* C16: a state-changing request of a client whose session holds no CSRF token
\* (no token the request carries can be the caller's valid one) is refused
\* before it changes the client's session or adds a session row; shown for
\* POST /auth/login and POST /auth/logout.
C16_StateChangeNeedsCsrfToken ==
    [][\A c \in Clients :
         (/\ resp'.client = c
          /\ resp'.op \in {"login", "logout"}
          /\ flask_session[c].csrf_token = NoToken)
         => /\ resp'.status # 200
            /\ flask_session'[c] = flask_session[c]
            /\ coat_hanger' \subseteq coat_hanger]_vars

\* The client's token names a row that is less than 600 s old at this step
LiveSession(c) ==
    \E r \in coat_hanger :
       /\ flask_session[c].session_hash # NoHash
       /\ r.session_hash = flask_session[c].session_hash
       /\ now - r.updated_at < SESSION_TIMEOUT_SECONDS

Authenticates(h) ==
    /\ resp'.hash = h
    /\ \/ resp'.op \in {"session", "dashboard", "get_settings"} /\ resp'.authenticated
       \/ resp'.op = "logout" /\ resp'.status = 200

C24_SweepIsHousekeeping ==
    [][resp'.op = "sweep"
       => /\ coat_hanger' \subseteq coat_hanger
          /\ \A r \in coat_hanger \ coat_hanger' :
                /\ is_expired(r, now)
                /\ find_by_session_hash(coat_hanger, r.session_hash, now).row = {}
          /\ resp'.count = Cardinality(coat_hanger \ coat_hanger')
          /\ flask_session' = flask_session /\ now' = now /\ users' = users
          /\ \A c \in Clients :
                /\ is_authenticated(c)'.ok = is_authenticated(c).ok
                /\ get_current_user(coat_hanger, c)'.user
                      = get_current_user(coat_hanger, c).user]_vars

\* C24 witness: a sweep deleted the row of one user and kept the row of the
\* other, who logged in later
C24_Witness ==
    /\ resp.op = "sweep"
    /\ resp.count = 1
    /\ Cardinality(coat_hanger) = 1
    /\ \A r \in coat_hanger : ~is_expired(r, now)

\* SessionUtils.get_active_sessions_count / get_user_session_count: the rows
\* their filter counts as active
active_sessions(tbl, t) ==
    {r \in tbl : r.updated_at >= t - SESSION_TIMEOUT_SECONDS}

\* services login_required and AuthService.validate_session_token: the test
\* against timeout_threshold, ten minutes before the clock reading
services_timed_out(row, t) == row.updated_at < t - 10 * 60

\* C25 (as claimed): the expiry predicates of the repository agree on every
\* session of every age, in particular on one that is exactly 600 s old:
\* CoatHanger.is_expired, the filter of the sweep, the active-session
\* counters and the services-layer checks.
C25_ExpiryPredicatesAgree ==
    \A r \in coat_hanger :
        /\ is_expired(r, now) <=> r \in expired_sessions(coat_hanger, now)
        /\ is_expired(r, now) <=> r \notin active_sessions(coat_hanger, now)
        /\ is_expired(r, now) <=> services_timed_out(r, now)

----------------------------------------------------------------------------
(* Logins served by concurrent workers *)

NextConc ==
    \/ \E c \in Clients, e \in LoginEmails, p \in LoginPasswords :
          LoginBegin(c, e, p)
    \/ \E c \in Clients : LoginFinish(c)
    \/ \E c \in Clients : SessionStatus(c)
    \/ \E c \in Clients, j \in BOOLEAN : Logout(c, j)
    \/ \E d \in Delays : Wait(d)

SpecConc == Init /\ [][NextConc]_vars

\* C5 (as claimed): in every reachable state, concurrent logins included, a
\* user has at most one session row that is not expired.
C5_AtMostOneLiveRow ==
    \A u \in UserIds :
        Cardinality({r \in RowsOfUser(coat_hanger, u) : ~is_expired(r, now)}) <= 1

----------------------------------------------------------------------------
(* Character classes of the regular expressions *)

Digits == {"0", "1", "2", "3", "4", "5", "6", "7", "8", "9"}
UpperLetters == {Upper[i] : i \in DOMAIN Upper}
LowerLetters == {LowerOf[i] : i \in DOMAIN LowerOf}
Letters == UpperLetters \cup LowerLetters
WordChars == Letters \cup Digits \cup {"_"}

AllIn(s, chars) == \A i \in DOMAIN s : s[i] \in chars

\* The length of the longest prefix of s drawn from chars
RECURSIVE run_length(_, _)
run_length(s, chars) ==
    IF s # <<>> /\ Head(s) \in chars THEN 1 + run_length(Tail(s), chars) ELSE 0

----------------------------------------------------------------------------
(* utils/validators.py *)

\* re.sub(r'<[^>]*>', '', s)
RECURSIVE strip_tags(_)
strip_tags(s) ==
    IF s = <<>> THEN <<>>
    ELSE IF Head(s) = "<" /\ \E i \in 2..Len(s) : s[i] = ">"
    THEN LET i == CHOOSE k \in 2..Len(s) :
                      s[k] = ">" /\ \A m \in 2..(k - 1) : s[m] # ">"
         IN strip_tags(SubSeq(s, i + 1, Len(s)))
    ELSE <<Head(s)>> \o strip_tags(Tail(s))

\* re.sub(r'javascript:', '', s, flags=re.IGNORECASE)
JavascriptScheme == <<"j", "a", "v", "a", "s", "c", "r", "i", "p", "t", ":">>

RECURSIVE remove_javascript(_)
remove_javascript(s) ==
    LET n == Len(JavascriptScheme) IN
    IF s = <<>> THEN <<>>
    ELSE IF Len(s) >= n /\ lower(SubSeq(s, 1, n)) = JavascriptScheme
    THEN remove_javascript(SubSeq(s, n + 1, Len(s)))
    ELSE <<Head(s)>> \o remove_javascript(Tail(s))

\* The length of the match of on\w+\s*= (IGNORECASE) at the start of s, 0 if
\* there is none
handler_match(s) ==
    IF Len(s) >= 2 /\ lower(SubSeq(s, 1, 2)) = <<"o", "n">>
    THEN LET w == run_length(SubSeq(s, 3, Len(s)), WordChars)
             sp == run_length(SubSeq(s, 3 + w, Len(s)), Whitespace)
         IN IF w >= 1 /\ Len(s) >= 3 + w + sp /\ s[3 + w + sp] = "="
            THEN 3 + w + sp ELSE 0
    ELSE 0

\* re.sub(r'on\w+\s*=', '', s, flags=re.IGNORECASE)
RECURSIVE remove_handlers(_)
remove_handlers(s) ==
    IF s = <<>> THEN <<>>
    ELSE IF handler_match(s) > 0
    THEN remove_handlers(SubSeq(s, handler_match(s) + 1, Len(s)))
    ELSE <<Head(s)>> \o remove_handlers(Tail(s))

\* validate_bio: (is_valid, sanitized bio)
validate_bio(bio) ==
    IF bio = <<>> THEN [valid |-> TRUE, text |-> <<>>]
    ELSE IF Len(bio) > 500 THEN [valid |-> FALSE, text |-> <<>>]
    ELSE [valid |-> TRUE,
          text |-> strip(remove_handlers(remove_javascript(strip_tags(bio))))]

\* validate_password_strength: the error message, "" when the password passes
validate_password_strength(password) ==
    IF Len(password) < 8 THEN "Password must be at least 8 characters"
    ELSE IF ~\E i \in DOMAIN password : password[i] \in UpperLetters
    THEN "Password must contain at least one uppercase letter"
    ELSE IF ~\E i \in DOMAIN password : password[i] \in LowerLetters
    THEN "Password must contain at least one lowercase letter"
    ELSE IF ~\E i \in DOMAIN password : password[i] \in Digits
    THEN "Password must contain at least one digit"
    ELSE ""

----------------------------------------------------------------------------
(* logic/image_utils.py *)

\* An image file is described by what Pillow finds in its bytes: the format
\* of the header, the size in bytes, whether verify() passes, whether the
\* pixel data loads, and whether it carries EXIF metadata.  A base64 text is
\* the file it encodes and whether its padding is correct.
MAX_SIZE == 5 * 1024 * 1024

NoImage ==
    [format |-> "", size |-> 0, verifies |-> FALSE, loads |-> FALSE, exif |-> FALSE]

AllowedFormats == {"JPEG", "PNG", "GIF"}

\* encode_image: base64.b64encode
encode_image(file_bytes) == [padded |-> TRUE, bytes |-> file_bytes]

\* decode_image: base64.b64decode, ValueError on incorrect padding
decode_image(base64_string) ==
    [ok |-> base64_string.padded, bytes |-> base64_string.bytes]

\* f"image/{image.format.lower()}"
mime_type(format) ==
    IF format = "JPEG" THEN "image/jpeg"
    ELSE IF format = "PNG" THEN "image/png"
    ELSE "image/gif"

\* validate_image: (is_valid, MIME type or error message)
validate_image(file_bytes) ==
    IF file_bytes.size > MAX_SIZE
    THEN [valid |-> FALSE, result |-> "exceeds 5MB limit"]
    ELSE IF file_bytes.format \notin AllowedFormats
    THEN [valid |-> FALSE, result |-> "Invalid format"]
    ELSE IF ~file_bytes.verifies
    THEN [valid |-> FALSE, result |-> "Invalid image file"]
    ELSE [valid |-> TRUE, result |-> mime_type(file_bytes.format)]

\* sanitize_image: the pixel data is loaded and saved again without metadata;
\* ValueError when the format is not allowed or the pixel data does not load
sanitize_image(file_bytes) ==
    IF file_bytes.format \notin AllowedFormats \/ ~file_bytes.loads
    THEN [ok |-> FALSE, bytes |-> file_bytes]
    ELSE [ok |-> TRUE, bytes |-> [file_bytes EXCEPT !.exif = FALSE]]

----------------------------------------------------------------------------
(* models/user.py, models/base_model.py *)

\* A field of a JSON body: dict.get(key, default)
value_of(field, default) == IF field = {} THEN default ELSE CHOOSE v \in field : TRUE

\* datetime.isoformat() + 'Z'
isoformat_z(t) == [kind |-> "iso", wall |-> t, aware |-> TRUE, off |-> 0]

\* User.to_dict(include_picture=False)
to_dict(user_id, user) ==
    [id |-> user_id, email |-> user.email, full_name |-> user.full_name,
     bio |-> user.bio,
     profile_picture_mime_type |-> user.profile_picture_mime_type,
     profile_picture_data |-> {}, created_at |-> user.created_at,
     updated_at |-> isoformat_z(user.updated_at)]

----------------------------------------------------------------------------
(* logic/profile_service.py *)

\* ProfileService.get_user_profile: {} for None
get_user_profile(tbl, user_id) ==
    IF user_id \in DOMAIN tbl THEN {to_dict(user_id, tbl[user_id])} ELSE {}

\* Variant of detect_concurrent_edit that reports a conflict when it cannot
\* read the submitted timestamp
detect_concurrent_edit_strict(user, submitted_updated_at) ==
    IF submitted_updated_at.kind # "iso" THEN TRUE
    ELSE user.updated_at > submitted_updated_at.wall

\* ProfileService.detect_concurrent_edit: fromisoformat() of an empty text is
\* not reached, of garbage raises ValueError; replace(tzinfo=None) keeps the
\* wall-clock reading of an aware timestamp and drops its offset
detect_concurrent_edit(user, submitted_updated_at) ==
    IF submitted_updated_at.kind = "empty" THEN FALSE
    ELSE IF submitted_updated_at.kind # "iso" THEN FALSE
    ELSE user.updated_at > submitted_updated_at.wall

\* The regular expression ^[a-zA-Z0-9._%+-]+@[a-zA-Z0-9.-]+\.[a-zA-Z]{2,}$
email_pattern(s) ==
    \E i \in DOMAIN s, j \in DOMAIN s :
        /\ s[i] = "@" /\ s[j] = "."
        /\ i > 1 /\ j > i + 1 /\ Len(s) - j >= 2
        /\ AllIn(SubSeq(s, 1, i - 1), Letters \cup Digits \cup {".", "_", "%", "+", "-"})
        /\ AllIn(SubSeq(s, i + 1, j - 1), Letters \cup Digits \cup {".", "-"})
        /\ AllIn(SubSeq(s, j + 1, Len(s)), Letters)

\* Variant of validate_profile_data that accepts everything
validate_profile_data_lax(tbl, data, user_id) == {}

\* ProfileService.validate_profile_data: the errors, as (key, message) pairs
validate_profile_data(tbl, data, user_id) ==
    LET full_name == strip(value_of(data.full_name, <<>>))
        email == lower(strip(value_of(data.email, <<>>)))
        existing == find_by_email(tbl, email)
        bio == value_of(data.bio, <<>>)
        password == value_of(data.password, <<>>)
        image == decode_image(value_of(data.profile_picture_data, encode_image(NoImage)))
    IN
    (IF full_name = <<>> THEN {<<"full_name", "Full name is required">>}
     ELSE IF Len(full_name) < 2
     THEN {<<"full_name", "Must be at least 2 characters">>}
     ELSE IF Len(full_name) > 100
     THEN {<<"full_name", "Must be 100 characters or less">>}
     ELSE {})
    \cup
    (IF email = <<>> THEN {<<"email", "Email is required">>}
     ELSE IF ~email_pattern(email) THEN {<<"email", "Invalid email format">>}
     ELSE IF existing # NoUser /\ existing # user_id
     THEN {<<"email", "Email already in use">>}
     ELSE {})
    \cup
    (IF bio # <<>> /\ ~validate_bio(bio).valid
     THEN {<<"bio", "Bio must be 500 characters or less">>} ELSE {})
    \cup
    (IF password # <<>> /\ validate_password_strength(password) # ""
     THEN {<<"password", validate_password_strength(password)>>} ELSE {})
    \cup
    (IF data.profile_picture_data = {} THEN {}
     ELSE IF ~image.ok THEN {<<"profile_picture", "Invalid image data">>}
     ELSE IF ~validate_image(image.bytes).valid
     THEN {<<"profile_picture", validate_image(image.bytes).result>>}
     ELSE {})

\* update_profile, "Update fields": the loaded User object after the
\* assignments of full_name, email, bio and password_hash
assign_fields(user, data, t) ==
    LET new_email == lower(strip(value_of(data.email, <<>>)))
        password == value_of(data.password, <<>>)
        r1 == IF data.full_name # {}
              THEN [user EXCEPT !.full_name = strip(value_of(data.full_name, <<>>))]
              ELSE user
        r2 == IF data.email # {} /\ new_email # user.email
              THEN [r1 EXCEPT !.email = new_email] ELSE r1
        r3 == IF data.bio # {}
              THEN [r2 EXCEPT !.bio = validate_bio(value_of(data.bio, <<>>)).text]
              ELSE r2
    IN IF password # <<>>
       THEN [r3 EXCEPT !.password_hash = hash_password(password, t)] ELSE r3

\* update_profile, "Handle profile picture upload" and "Remove profile
\* picture if requested": the object after them, whether the deferred column
\* profile_picture_data was assigned, and whether the processing raised
process_picture(user, data) ==
    LET image == decode_image(value_of(data.profile_picture_data, encode_image(NoImage)))
        clean == sanitize_image(image.bytes)
        check == validate_image(clean.bytes)
        failed == data.profile_picture_data # {} /\ (~image.ok \/ ~clean.ok)
        r1 == IF data.profile_picture_data # {} /\ ~failed
              THEN [user EXCEPT
                      !.profile_picture_data = {encode_image(clean.bytes)},
                      !.profile_picture_mime_type =
                          IF check.valid THEN check.result ELSE @]
              ELSE user
        r2 == IF data.remove_profile_picture
              THEN [r1 EXCEPT !.profile_picture_data = {},
                             !.profile_picture_mime_type = ""]
              ELSE r1
    IN [ok |-> ~failed, user |-> IF failed THEN user ELSE r2,
        assigned |-> ~failed /\ (data.profile_picture_data # {}
                                 \/ data.remove_profile_picture)]

\* Variant of discard_pending that writes the pending object to the table
flush_pending(tbl, user_id, pending) == [tbl EXCEPT ![user_id] = pending]

\* update_profile raising after its assignments: no commit is reached and
\* the pending object is dropped with the request's unit of work
discard_pending(tbl, user_id, pending) == tbl

\* Variant of commit that leaves updated_at as it was
commit_keep_timestamp(tbl, user_id, pending, assigned, t) ==
    [tbl EXCEPT ![user_id] = pending]

\* db.session.commit() of update_profile: an UPDATE is emitted when an
\* attribute changed or the deferred picture column was assigned, and
\* onupdate then sets updated_at
commit(tbl, user_id, pending, assigned, t) ==
    IF pending = tbl[user_id] /\ ~assigned THEN tbl
    ELSE [tbl EXCEPT ![user_id] = [pending EXCEPT !.updated_at = t]]

\* update_profile, "Track old email for notifications": the arguments of the
\* call of send_email_change_notifications the update ends with, none when
\* email_changed stays False
email_change_notifications(user, data) ==
    LET new_email == lower(strip(value_of(data.email, <<>>))) IN
    IF data.email # {} /\ new_email # user.email
    THEN {<<user.email, new_email>>} ELSE {}

\* ProfileService.update_profile at clock reading t: the outcome, the errors,
\* the table left behind, the profile returned and the notification sent
\* after the commit
update_profile(tbl, user_id, data, submitted_updated_at, t) ==
    IF user_id \notin DOMAIN tbl
    THEN [outcome |-> "not_found", errors |-> {}, table |-> tbl, user |-> {}, notified |-> {}]
    ELSE IF detect_concurrent_edit(tbl[user_id], submitted_updated_at)
    THEN [outcome |-> "conflict", errors |-> {}, table |-> tbl, user |-> {}, notified |-> {}]
    ELSE IF validate_profile_data(tbl, data, user_id) # {}
    THEN [outcome |-> "invalid",
          errors |-> validate_profile_data(tbl, data, user_id),
          table |-> tbl, user |-> {}, notified |-> {}]
    ELSE LET p == process_picture(assign_fields(tbl[user_id], data, t), data) IN
         IF ~p.ok
         THEN [outcome |-> "invalid",
               errors |-> {<<"profile_picture", "Failed to sanitize image">>},
               table |-> discard_pending(tbl, user_id,
                                         assign_fields(tbl[user_id], data, t)),
               user |-> {}, notified |-> {}]
         ELSE LET saved == commit(tbl, user_id, p.user, p.assigned, t) IN
              [outcome |-> "ok", errors |-> {}, table |-> saved,
               user |-> {to_dict(user_id, saved[user_id])},
               notified |-> email_change_notifications(tbl[user_id], data)]

----------------------------------------------------------------------------
(* utils/csrf_utils.py *)

\* CSRFUtils.validate_csrf_token against the token kept in the session
validate_csrf_token(token, session_token) ==
    IF token = NoToken THEN FALSE
    ELSE IF session_token = NoToken THEN FALSE
    ELSE token = session_token

----------------------------------------------------------------------------
(* controllers/settings_routes.py *)

\* HTTP status of each outcome of update_profile in update_settings
status_of(outcome) ==
    IF outcome = "ok" THEN 200
    ELSE IF outcome = "conflict" THEN 409
    ELSE IF outcome = "invalid" THEN 400
    ELSE 404

\* update_settings after a successful update: the session row found for the
\* caller's hash gets the new cached user_data and is saved
cache_user_data(tbl, h, profile, t) ==
    LET f == find_by_session_hash(tbl, h, t) IN
    IF h = NoHash \/ f.row = {} THEN f.table
    ELSE LET r == CHOOSE x \in f.row : TRUE IN
         (f.table \ {r}) \cup
         {[r EXCEPT !.user_data = [email |-> profile.email,
                                   full_name |-> profile.full_name,
                                   id_key |-> "id"],
                    !.updated_at = t]}

\* POST /settings with a JSON body: login_required, csrf_protect (the token
\* is read from the body), ProfileService.update_profile, and on success the
\* refresh of the Flask session and of the session row's cached user data.
\* The body always holds the csrf_token key, so it is never empty.
UpdateSettings(c, data, token) ==
    LET a == is_authenticated(c)
        user_id == flask_session[c].user_id
        r == update_profile(users, user_id, data, data.updated_at, now)
        written == r.table # users
        profile == CHOOSE x \in r.user : TRUE
    IN
    IF ~a.ok
    THEN /\ coat_hanger' = a.table
         /\ resp' = [NoResp EXCEPT !.op = "update_settings", !.client = c,
                                   !.status = Unauthenticated(TRUE),
                                   !.found = a.found]
         /\ UNCHANGED <<contact_message, now, users, flask_session, next_hash, issued, inflight,
                        commits>>
    ELSE IF ~validate_csrf_token(token, flask_session[c].csrf_token)
    THEN /\ resp' = [NoResp EXCEPT !.op = "update_settings", !.client = c,
                                   !.status = 403, !.authenticated = TRUE,
                                   !.found = a.found]
         /\ UNCHANGED <<contact_message, now, users, coat_hanger, flask_session, next_hash,
                        issued, inflight, commits>>
    ELSE /\ users' = r.table
         /\ commits' = IF written THEN commits + 1 ELSE commits
         /\ commits' <= MaxCommits
         /\ now' = IF written THEN now + 1 ELSE now
         /\ IF r.outcome = "ok"
            THEN /\ flask_session' =
                      [flask_session EXCEPT ![c].user_email = profile.email,
                                            ![c].user_name = profile.full_name]
                 /\ coat_hanger' =
                      cache_user_data(a.table, flask_session[c].session_hash,
                                      profile, now')
            ELSE UNCHANGED <<flask_session, coat_hanger>>
         /\ resp' = [NoResp EXCEPT
                       !.op = "update_settings", !.client = c,
                       !.status = status_of(r.outcome),
                       !.authenticated = TRUE, !.user_id = user_id,
                       !.hash = flask_session[c].session_hash,
                       !.found = a.found, !.outcome = r.outcome,
                       !.data = data, !.errors = r.errors,
                       !.notified = r.notified,
                       !.current_data =
                           IF r.outcome = "conflict"
                           THEN get_user_profile(users, user_id)
                           ELSE r.user]
         /\ UNCHANGED <<contact_message, next_hash, issued, inflight>>

\* ProfileService.update_profile called for an id that names no user
UpdateProfile(user_id, data) ==
    LET r == update_profile(users, user_id, data, data.updated_at, now) IN
    /\ r.outcome = "not_found"
    /\ users' = r.table
    /\ resp' = [NoResp EXCEPT !.op = "update_profile", !.user_id = user_id,
                              !.status = status_of(r.outcome),
                              !.outcome = r.outcome]
    /\ UNCHANGED <<contact_message, now, coat_hanger, flask_session, next_hash, issued,
                   inflight, commits>>

----------------------------------------------------------------------------
(* Profile updates: inputs and specification *)

NameNew == <<" ", "B", "o", "b">>
NameShort == <<"B">>
EmailCMixed == <<" ", "C", "@", "x", ".", "i", "o">>
EmailBad == <<"c", "@", "x">>
BioHtml == <<"<", "b", ">", "h", "i">>
BioLong == [i \in 1..501 |-> "x"]
PwNew == <<"N", "e", "w", "p", "a", "s", "s", "9">>
PwWeak == <<"w", "e", "a", "k">>

\* A PNG with metadata, a JPEG whose pixel data is cut short (verify() passes,
\* loading fails) and a BMP
PicGood ==
    encode_image([format |-> "PNG", size |-> 2048, verifies |-> TRUE,
                  loads |-> TRUE, exif |-> TRUE])
PicTruncated ==
    encode_image([format |-> "JPEG", size |-> 2048, verifies |-> TRUE,
                  loads |-> FALSE, exif |-> FALSE])
PicBmp ==
    encode_image([format |-> "BMP", size |-> 2048, verifies |-> TRUE,
                  loads |-> TRUE, exif |-> FALSE])

Offsets == {0, 2}

Garbage == [kind |-> "garbage", wall |-> 0, aware |-> FALSE, off |-> 0]

\* Submitted timestamps: none, unparseable, and wall-clock readings with the
\* offset 0 ("Z") or a positive offset
Timestamps ==
    {NoTimestamp, Garbage} \cup
    {[kind |-> "iso", wall |-> w, aware |-> TRUE, off |-> o] :
        w \in 0..MaxCommits, o \in Offsets}

\* Every subset of the updatable fields, each with a valid value
ValidData ==
    [full_name : {{}, {NameNew}}, email : {{}, {EmailCMixed}},
     bio : {{}, {BioHtml}}, password : {{}, {PwNew}},
     profile_picture_data : {{}, {PicGood}},
     remove_profile_picture : {FALSE}, updated_at : {NoTimestamp},
     current_password : {{}}]

BaseData == [NoData EXCEPT !.full_name = {NameNew}, !.email = {EmailCMixed}]

\* Bodies with an invalid field, a taken email, a picture that fails while
\* it is processed, the removal of the picture, and bodies that carry the
\* current_password key of the route's documentation
OtherData ==
    {[BaseData EXCEPT !.full_name = {NameShort}],
     [BaseData EXCEPT !.email = {EmailBad}],
     [BaseData EXCEPT !.email = {EmailB}],
     [BaseData EXCEPT !.bio = {BioLong}],
     [BaseData EXCEPT !.password = {PwWeak}],
     [BaseData EXCEPT !.profile_picture_data = {PicBmp}],
     [BaseData EXCEPT !.profile_picture_data = {PicTruncated}],
     [BaseData EXCEPT !.bio = {BioHtml}, !.password = {PwNew},
                      !.profile_picture_data = {PicTruncated}],
     [BaseData EXCEPT !.full_name = {NameShort}, !.email = {EmailBad},
                      !.bio = {BioLong}, !.password = {PwWeak},
                      !.profile_picture_data = {PicBmp}],
     [BaseData EXCEPT !.remove_profile_picture = TRUE],
     [BaseData EXCEPT !.current_password = {PwNew}],
     [BaseData EXCEPT !.password = {PwNew}, !.current_password = {PwA}]}

ProfileData ==
    {[d EXCEPT !.updated_at = ts] : d \in ValidData \cup OtherData, ts \in Timestamps}

Tokens == {NoToken} \cup Clients

MissingUser == Cardinality(UserIds) + 1

\* The clients of LoggedIn have logged in at time 0 (client c as user c) and
\* loaded the settings page, which put a CSRF token into their session; the
\* other clients have no session
InitProfile ==
    /\ now = 1
    /\ users = [u \in UserIds |->
                  IF u = 1 THEN SeedUser(EmailA, NameA, PwA)
                           ELSE SeedUser(EmailB, NameB, PwB)]
    /\ \E LoggedIn \in {{1}, {1, 2}} :
          /\ coat_hanger = {new_coat_hanger(c, c, 0) : c \in LoggedIn}
          /\ flask_session =
               [c \in Clients |->
                  IF c \in LoggedIn
                  THEN [EmptySession EXCEPT !.session_hash = c, !.user_id = c,
                                            !.csrf_token = c]
                  ELSE EmptySession]
          /\ next_hash = Cardinality(LoggedIn)
          /\ issued = [h \in 1..Cardinality(LoggedIn) |-> h]
    /\ inflight = [c \in Clients |-> NoUser]
    /\ commits = 0
    /\ contact_message = <<>>
    /\ resp = NoResp

\* The client has read the response
Receive ==
    /\ resp # NoResp
    /\ resp' = NoResp
    /\ UNCHANGED <<contact_message, now, users, coat_hanger, flask_session, next_hash, issued,
                   inflight, commits>>

\* Requests are served one after the other: the response to one is read
\* before the next is sent
NextProfile ==
    \/ /\ resp = NoResp
       /\ \E c \in Clients, d \in ProfileData, k \in Tokens : UpdateSettings(c, d, k)
    \/ /\ resp = NoResp
       /\ \E d \in ProfileData : UpdateProfile(MissingUser, d)
    \/ Receive

SpecProfile == InitProfile /\ [][NextProfile]_vars

----------------------------------------------------------------------------
(* Properties of the profile update, checked under SpecProfile *)

\* A step in which update_settings called update_profile
ProfileStep == resp'.op = "update_settings" /\ resp'.outcome # "none"

\* The instant a submitted timestamp denotes, in UTC
Instant(ts) == ts.wall - ts.off

\* C6 (as claimed): update_profile for an existing user with a client_seen_at
\* that denotes an instant strictly before the row's updated_at fails with
\* ConcurrentEdit (409 carrying the row's current values) and changes nothing,
\* whatever the submitted fields are.
C6_StaleAlwaysConflicts ==
    [][(/\ ProfileStep
        /\ resp'.data.updated_at.kind = "iso"
        /\ Instant(resp'.data.updated_at) < users[resp'.user_id].updated_at)
       => /\ resp'.outcome = "conflict"
          /\ resp'.status = 409
          /\ resp'.current_data = {to_dict(resp'.user_id, users[resp'.user_id])}
          /\ users' = users]_vars

\* C7: a successful update_profile that changes a user row makes the row's
\* updated_at strictly greater, no step makes it smaller, and an update_profile
\* that carries a UTC timestamp strictly older than the row's updated_at (any
\* pre-update reading) fails with ConcurrentEdit and leaves the row alone.
C7_UpdatedAtAdvances ==
    [][/\ \A u \in UserIds :
            /\ users'[u].updated_at >= users[u].updated_at
            /\ users'[u] # users[u] =>
                  /\ ProfileStep /\ resp'.outcome = "ok" /\ resp'.user_id = u
                  /\ users'[u].updated_at > users[u].updated_at
       /\ (/\ ProfileStep
           /\ resp'.data.updated_at.kind = "iso"
           /\ resp'.data.updated_at.off = 0
           /\ resp'.data.updated_at.wall < users[resp'.user_id].updated_at)
          => /\ resp'.outcome = "conflict"
             /\ users' = users]_vars

\* C7 witness: the row was saved once, and a second save that still carried
\* the timestamp of the version loaded before that save was refused
C7_Witness ==
    /\ resp.op = "update_settings"
    /\ resp.outcome = "conflict"
    /\ resp.data.updated_at = isoformat_z(0)
    /\ commits = 1
    /\ users[resp.user_id].updated_at = 1
    /\ users[resp.user_id].full_name = <<"B", "o", "b">>

\* C8: when update_profile fails (user not found, ConcurrentEdit or
\* ValidationError, also one raised by the picture processing after the other
\* fields were assigned), no column of any user row and no session row changes.
C8_FailureChangesNothing ==
    [][(/\ resp'.op \in {"update_settings", "update_profile"}
        /\ resp'.outcome \in {"not_found", "conflict", "invalid"})
       => /\ users' = users
          /\ coat_hanger' = coat_hanger
          /\ flask_session' = flask_session
          /\ commits' = commits]_vars

\* C8 witness: the picture processing failed after full_name, email, bio and
\* the password had been assigned, and the row still holds its old values
C8_Witness ==
    /\ resp.op = "update_settings"
    /\ resp.outcome = "invalid"
    /\ resp.errors = {<<"profile_picture", "Failed to sanitize image">>}
    /\ resp.data.full_name = {NameNew}
    /\ resp.data.bio = {BioHtml}
    /\ resp.data.password = {PwNew}
    /\ users[resp.user_id].full_name \in {NameA, NameB}
    /\ users[resp.user_id].bio = <<>>
    /\ ~verify_password(PwNew, users[resp.user_id].password_hash)

\* The email EmailCMixed normalises to is free for user u
EmailFree(u) ==
    \A v \in UserIds : users[v].email = <<"c", "@", "x", ".", "i", "o">> => v = u

\* The effect of a successful update on the optional fields: a supplied
\* field holds its new value, an absent one its previous value
OptionalFieldsApplied(d, old, new) ==
    /\ d.bio = {} => new.bio = old.bio
    /\ d.bio = {BioHtml} => new.bio = <<"h", "i">>
    /\ d.password = {} => new.password_hash = old.password_hash
    /\ d.password = {PwNew} =>
          /\ verify_password(PwNew, new.password_hash)
          /\ new.password_hash # old.password_hash
    /\ d.profile_picture_data = {} =>
          /\ new.profile_picture_data = old.profile_picture_data
          /\ new.profile_picture_mime_type = old.profile_picture_mime_type
    /\ d.profile_picture_data = {PicGood} =>
          /\ new.profile_picture_data =
               {[padded |-> TRUE,
                 bytes |-> [format |-> "PNG", size |-> 2048, verifies |-> TRUE,
                            loads |-> TRUE, exif |-> FALSE]]}
          /\ new.profile_picture_mime_type = "image/png"
    /\ new.created_at = old.created_at

\* C9 (as claimed): for every subset of the updatable fields supplied with
\* valid values, a request that passes the conflict check succeeds, sets the
\* supplied fields and leaves the absent ones at their previous values.
C9_AnySubsetSucceeds ==
    [][\A d \in ValidData :
         (/\ ProfileStep
          /\ resp'.outcome # "conflict"
          /\ [resp'.data EXCEPT !.updated_at = NoTimestamp] = d
          /\ EmailFree(resp'.user_id))
         => LET old == users[resp'.user_id]
                new == users'[resp'.user_id]
            IN /\ resp'.outcome = "ok"
               /\ d.full_name = {} => new.full_name = old.full_name
               /\ d.full_name = {NameNew} => new.full_name = <<"B", "o", "b">>
               /\ d.email = {} => new.email = old.email
               /\ d.email = {EmailCMixed} =>
                     new.email = <<"c", "@", "x", ".", "i", "o">>
               /\ OptionalFieldsApplied(d, old, new)]_vars

\* C9 (amended): full_name and email are required.  An input lacking either
\* fails with ValidationError and changes nothing.  For every subset of the
\* optional fields (bio, password, picture) supplied with valid values next
\* to a valid full_name and email, a request that passes the conflict check
\* succeeds, stores the normalised full_name and email, sets the supplied
\* optional fields, leaves the absent ones at their previous values and
\* leaves every other user's row alone.
C9_RequiredAndOptionalFields ==
    [][\A d \in ValidData :
         (/\ ProfileStep
          /\ resp'.outcome # "conflict"
          /\ [resp'.data EXCEPT !.updated_at = NoTimestamp] = d)
         => LET u == resp'.user_id
                old == users[u]
                new == users'[u]
            IN /\ (d.full_name = {} \/ d.email = {}) =>
                     /\ resp'.outcome = "invalid"
                     /\ resp'.status = 400
                     /\ d.full_name = {} =>
                           <<"full_name", "Full name is required">> \in resp'.errors
                     /\ d.email = {} =>
                           <<"email", "Email is required">> \in resp'.errors
                     /\ users' = users
               /\ (d.full_name # {} /\ d.email # {} /\ EmailFree(u)) =>
                     /\ resp'.outcome = "ok"
                     /\ new.full_name = <<"B", "o", "b">>
                     /\ new.email = <<"c", "@", "x", ".", "i", "o">>
                     /\ OptionalFieldsApplied(d, old, new)
                     /\ \A v \in UserIds \ {u} : users'[v] = users[v]]_vars

\* C9 witness: an update that supplied full_name, email and a password but no
\* bio succeeded and kept the bio stored by an earlier update
C9_Witness ==
    /\ resp.op = "update_settings"
    /\ resp.outcome = "ok"
    /\ resp.data.bio = {}
    /\ resp.data.password = {PwNew}
    /\ resp.data.profile_picture_data = {}
    /\ users[resp.user_id].bio = <<"h", "i">>
    /\ verify_password(PwNew, users[resp.user_id].password_hash)
    /\ users[resp.user_id].updated_at = now - 1

\* C13: after a successful password change of a user no session row of that
\* user remains.
C13_PasswordChangeEndsSessions ==
    [][(/\ ProfileStep
        /\ resp'.outcome = "ok"
        /\ users'[resp'.user_id].password_hash # users[resp'.user_id].password_hash)
       => RowsOfUser(coat_hanger', resp'.user_id) = {}]_vars

\* The body asks for another email or for a new password
ChangesCredentials(d, user) ==
    \/ d.email # {} /\ lower(strip(value_of(d.email, <<>>))) # user.email
    \/ value_of(d.password, <<>>) # <<>>

\* The body's current_password is the user's password
CurrentPasswordVerifies(d, user) ==
    /\ d.current_password # {}
    /\ verify_password(value_of(d.current_password, <<>>), user.password_hash)

\* C14: a POST /settings request that changes the email or the password is
\* applied only if its current_password verifies against the stored hash;
\* with a missing or wrong current_password it is rejected (400 or 422) and
\* the stored email and password hash stay as they were.
C14_CurrentPasswordRequired ==
    [][(/\ ProfileStep
        /\ ChangesCredentials(resp'.data, users[resp'.user_id])
        /\ ~CurrentPasswordVerifies(resp'.data, users[resp'.user_id]))
       => /\ resp'.status \in {400, 422}
          /\ users'[resp'.user_id].email = users[resp'.user_id].email
          /\ users'[resp'.user_id].password_hash
                = users[resp'.user_id].password_hash]_vars

\* C27: update_profile called with an empty, missing or unparseable
\* client_seen_at never reports ConcurrentEdit, whatever the row's updated_at
\* is: the request goes on to validation and, when the data are valid,
\* overwrites the row.
C27_NoTimestampNoConflict ==
    [][(ProfileStep /\ resp'.data.updated_at.kind \in {"empty", "garbage"})
       => LET u == resp'.user_id
              d == resp'.data
              errors == validate_profile_data(users, d, u)
          IN
          /\ ~detect_concurrent_edit(users[u], d.updated_at)
          /\ resp'.outcome # "conflict"
          /\ resp'.status # 409
          /\ errors # {} => resp'.outcome = "invalid" /\ resp'.errors = errors
          /\ (errors = {} /\ resp'.outcome = "ok")
             => /\ users'[u].full_name = strip(value_of(d.full_name, <<>>))
                /\ users'[u].email = lower(strip(value_of(d.email, <<>>)))
          /\ (errors = {} /\ d.profile_picture_data = {}) => resp'.outcome = "ok"]_vars

\* C27 witness: an update without a readable timestamp overwrote a row that
\* an earlier update had already changed
C27_Witness ==
    /\ resp.op = "update_settings"
    /\ resp.outcome = "ok"
    /\ resp.data.updated_at.kind = "garbage"
    /\ resp.data.full_name = {NameNew}
    /\ commits = 2
    /\ users[resp.user_id].updated_at = 2
    /\ users[resp.user_id].full_name = strip(NameNew)

----------------------------------------------------------------------------
(* POST /settings with a notifier that raises *)

\* POST /settings when send_email_change_notifications raises: update_profile
\* has committed, the exception leaves it through the unguarded call and
\* update_settings answers from its `except Exception` clause
UpdateSettingsNotifierRaises(c, data, token) ==
    LET a == is_authenticated(c)
        user_id == flask_session[c].user_id
        r == update_profile(users, user_id, data, data.updated_at, now)
    IN
    /\ a.ok
    /\ validate_csrf_token(token, flask_session[c].csrf_token)
    /\ r.outcome = "ok"
    /\ r.notified # {}
    /\ users' = r.table
    /\ commits' = commits + 1
    /\ commits' <= MaxCommits
    /\ now' = now + 1
    /\ resp' = [NoResp EXCEPT !.op = "update_settings", !.client = c,
                              !.status = 500, !.authenticated = TRUE,
                              !.user_id = user_id,
                              !.hash = flask_session[c].session_hash,
                              !.found = a.found, !.outcome = "error",
                              !.data = data, !.notified = r.notified]
    /\ UNCHANGED <<contact_message, coat_hanger, flask_session, next_hash,
                   issued, inflight>>

NextNotify ==
    \/ /\ resp = NoResp
       /\ \E c \in Clients, d \in ProfileData, k \in Tokens : UpdateSettings(c, d, k)
    \/ /\ resp = NoResp
       /\ \E c \in Clients, d \in ProfileData, k \in Tokens :
             UpdateSettingsNotifierRaises(c, d, k)
    \/ Receive

SpecNotify == InitProfile /\ [][NextNotify]_vars

----------------------------------------------------------------------------
(* utils/csrf_utils.py: the csrf_protect decorator *)

\* A request as csrf_protect reads it: the method, the kind of body ("json"
\* when request.is_json, "form" for form data, "none" without a body), the
\* csrf_token key of the body (NoToken when absent or empty), whether the body
\* has other keys, and the X-CSRF-Token header (NoToken when absent)
Methods == {"GET", "POST"}
Requests ==
    {r \in [method : Methods, content : {"json", "form", "none"},
            body_token : Tokens, body_fields : BOOLEAN, header : Tokens] :
        r.content = "none" => (r.body_token = NoToken /\ ~r.body_fields)}

\* csrf_protect, "Get token from request": the one place the token is read from
request_token(r) ==
    IF r.content = "json" THEN r.body_token
    ELSE IF r.content = "form" /\ (r.body_fields \/ r.body_token # NoToken)
    THEN r.body_token
    ELSE r.header

\* csrf_protect: 403 when the request is refused, 0 when the handler is called
csrf_protect(r, session_token) ==
    IF r.method \in {"POST", "PUT", "DELETE", "PATCH"}
       /\ ~validate_csrf_token(request_token(r), session_token)
    THEN 403 ELSE 0

\* A request to a route that is wrapped in csrf_protect only and whose
\* handler answers 200
CsrfProtected(c, r) ==
    LET refused == csrf_protect(r, flask_session[c].csrf_token) IN
    /\ resp' = [NoResp EXCEPT !.op = "csrf_protect", !.client = c,
                              !.status = IF refused # 0 THEN refused ELSE 200,
                              !.current_data = {r}]
    /\ UNCHANGED <<contact_message, now, users, coat_hanger, flask_session, next_hash, issued,
                   inflight, commits>>

\* Every client's session holds a CSRF token or none
InitCsrf ==
    /\ now = 0
    /\ users = [u \in UserIds |->
                  IF u = 1 THEN SeedUser(EmailA, NameA, PwA)
                           ELSE SeedUser(EmailB, NameB, PwB)]
    /\ coat_hanger = {}
    /\ flask_session \in
         {[c \in Clients |-> [EmptySession EXCEPT !.csrf_token = k[c]]] :
             k \in [Clients -> Tokens]}
    /\ next_hash = 0
    /\ issued = <<>>
    /\ inflight = [c \in Clients |-> NoUser]
    /\ commits = 0
    /\ contact_message = <<>>
    /\ resp = NoResp

NextCsrf ==
    \/ /\ resp = NoResp
       /\ \E c \in Clients, r \in Requests : CsrfProtected(c, r)
    \/ Receive

SpecCsrf == InitCsrf /\ [][NextCsrf]_vars

\* C17: csrf_protect lets a state-changing request through if and only if
\* the session holds a CSRF token and the request carries that token in the
\* body's csrf_token key (form or JSON) or in the X-CSRF-Token header,
\* whatever the kind of body.
C17_AnyLocationAccepted ==
    [][resp'.op = "csrf_protect"
       => \A r \in resp'.current_data :
             LET k == flask_session[resp'.client].csrf_token IN
             r.method = "POST"
             => ((resp'.status = 200)
                 <=> (k # NoToken /\ (r.body_token = k \/ r.header = k)))]_vars

----------------------------------------------------------------------------
(* utils/validation_utils.py *)

\* ValidationUtils.validate_name: the error message, "" when valid
validate_name(name, min_length, max_length) ==
    IF name = <<>> THEN "Name cannot be empty"
    ELSE IF Len(strip(name)) < min_length THEN "Name is too short"
    ELSE IF Len(strip(name)) > max_length THEN "Name is too long"
    ELSE IF ~AllIn(strip(name), Letters \cup Whitespace \cup {"'", "-"})
    THEN "Name contains invalid characters"
    ELSE ""

\* ValidationUtils.validate_email: the error message, "" when valid
validate_email(email) ==
    IF email = <<>> THEN "Email cannot be empty"
    ELSE IF Len(strip(email)) > 120 THEN "Email must not exceed 120 characters"
    ELSE IF ~email_pattern(strip(email)) THEN "Invalid email format"
    ELSE ""

\* ValidationUtils.validate_text_length: the error message, "" when valid
validate_text_length(text, min_length, max_length) ==
    IF text = <<>> THEN "cannot be empty"
    ELSE IF Len(strip(text)) < min_length THEN "is too short"
    ELSE IF Len(strip(text)) > max_length THEN "is too long"
    ELSE ""

\* ValidationUtils.sanitize_html: the entity each character is replaced by
escape_of(ch) ==
    CASE ch = "&" -> <<"&", "a", "m", "p", ";">>
      [] ch = "<" -> <<"&", "l", "t", ";">>
      [] ch = ">" -> <<"&", "g", "t", ";">>
      [] ch = "\"" -> <<"&", "q", "u", "o", "t", ";">>
      [] ch = "'" -> <<"&", "#", "x", "2", "7", ";">>
      [] ch = "/" -> <<"&", "#", "x", "2", "F", ";">>
      [] OTHER -> <<ch>>

\* ValidationUtils.sanitize_html
RECURSIVE sanitize_html(_)
sanitize_html(text) ==
    IF text = <<>> THEN <<>>
    ELSE escape_of(Head(text)) \o sanitize_html(Tail(text))

----------------------------------------------------------------------------
(* logic/contact_service.py, models/contact_message.py *)

MIN_NAME_LENGTH == 2
MAX_NAME_LENGTH == 100
MIN_SUBJECT_LENGTH == 5
MAX_SUBJECT_LENGTH == 200
MIN_MESSAGE_LENGTH == 10
MAX_MESSAGE_LENGTH == 2000

\* ContactService.validate_contact_data: the errors, as (key, message) pairs
validate_contact_data(name, email, subject, message) ==
    LET e1 == validate_name(name, MIN_NAME_LENGTH, MAX_NAME_LENGTH)
        e2 == validate_email(email)
        e3 == validate_text_length(subject, MIN_SUBJECT_LENGTH, MAX_SUBJECT_LENGTH)
        e4 == validate_text_length(message, MIN_MESSAGE_LENGTH, MAX_MESSAGE_LENGTH)
    IN (IF e1 # "" THEN {<<"name", e1>>} ELSE {})
       \cup (IF e2 # "" THEN {<<"email", e2>>} ELSE {})
       \cup (IF e3 # "" THEN {<<"subject", e3>>} ELSE {})
       \cup (IF e4 # "" THEN {<<"message", e4>>} ELSE {})

\* The row ContactMessage(...) describes once both save() calls are done:
\* confirmation_email_sent follows the first send; the second send's flag is
\* assigned to admin_notification_sent, which is no column of the table
new_contact_message(name, email, subject, message, confirmation_sent, t) ==
    [name |-> sanitize_html(strip(name)), email |-> strip(lower(email)),
     subject |-> sanitize_html(strip(subject)),
     message |-> sanitize_html(strip(message)), submitted_at |-> t,
     confirmation_email_sent |-> confirmation_sent,
     confirmation_email_sent_at |-> {},
     admin_email_sent |-> FALSE, admin_email_sent_at |-> {},
     created_at |-> t, updated_at |-> t]

\* ContactService.mark_confirmation_sent: ContactMessage.find_by_id, then
\* ContactMessage.mark_confirmation_sent
mark_confirmation_sent(tbl, contact_id, t) ==
    IF contact_id \notin DOMAIN tbl THEN [success |-> FALSE, table |-> tbl]
    ELSE [success |-> TRUE,
          table |-> [tbl EXCEPT ![contact_id].confirmation_email_sent = TRUE,
                                ![contact_id].confirmation_email_sent_at = {t},
                                ![contact_id].updated_at = t]]

\* ContactService.mark_admin_notified: ContactMessage.find_by_id, then
\* ContactMessage.mark_admin_notified
mark_admin_notified(tbl, contact_id, t) ==
    IF contact_id \notin DOMAIN tbl THEN [success |-> FALSE, table |-> tbl]
    ELSE [success |-> TRUE,
          table |-> [tbl EXCEPT ![contact_id].admin_email_sent = TRUE,
                                ![contact_id].admin_email_sent_at = {t},
                                ![contact_id].updated_at = t]]

\* Variant of submit_contact_form that reports a failed send as a failure
submit_contact_form_mail_required(tbl, name, email, subject, message, confirmation_sent, notification_sent, t) ==
    IF validate_contact_data(name, email, subject, message) # {}
    THEN [success |-> FALSE, table |-> tbl, contact_id |-> 0,
          errors |-> validate_contact_data(name, email, subject, message)]
    ELSE [success |-> confirmation_sent /\ notification_sent,
          table |-> Append(tbl, new_contact_message(name, email, subject, message,
                                                    confirmation_sent, t)),
          contact_id |-> Len(tbl) + 1, errors |-> {}]

\* ContactService.submit_contact_form, given what the two sends returned
submit_contact_form(tbl, name, email, subject, message, confirmation_sent, notification_sent, t) ==
    IF validate_contact_data(name, email, subject, message) # {}
    THEN [success |-> FALSE, table |-> tbl, contact_id |-> 0,
          errors |-> validate_contact_data(name, email, subject, message)]
    ELSE [success |-> TRUE,
          table |-> Append(tbl, new_contact_message(name, email, subject, message,
                                                    confirmation_sent, t)),
          contact_id |-> Len(tbl) + 1, errors |-> {}]

----------------------------------------------------------------------------
(* controllers/main_routes.py: POST /contact *)

MaxMessages == 2

\* POST /contact with a JSON body; the two sends of EmailUtils return
\* confirmation_sent and notification_sent
Contact(name, email, subject, message, confirmation_sent, notification_sent) ==
    LET gate == name = <<>> \/ email = <<>> \/ subject = <<>> \/ message = <<>>
        r == submit_contact_form(contact_message, name, email, subject, message,
                                 confirmation_sent, notification_sent, now)
        request == [name |-> name, email |-> email, subject |-> subject,
                    message |-> message, confirmation_sent |-> confirmation_sent,
                    notification_sent |-> notification_sent]
    IN
    /\ Len(contact_message) < MaxMessages
    /\ contact_message' = IF gate THEN contact_message ELSE r.table
    /\ resp' = [NoResp EXCEPT !.op = "contact",
                              !.status = IF gate THEN 422
                                         ELSE IF r.success THEN 201 ELSE 400,
                              !.authenticated = (~gate /\ r.success),
                              !.count = IF gate THEN 0 ELSE r.contact_id,
                              !.errors = IF gate THEN {} ELSE r.errors,
                              !.current_data = {request}]
    /\ UNCHANGED <<now, users, coat_hanger, flask_session, next_hash, issued,
                   inflight, commits>>

\* ContactService.submit_contact_form called without the route's gate
SubmitContactForm(name, email, subject, message, confirmation_sent, notification_sent) ==
    LET r == submit_contact_form(contact_message, name, email, subject, message,
                                 confirmation_sent, notification_sent, now)
        request == [name |-> name, email |-> email, subject |-> subject,
                    message |-> message, confirmation_sent |-> confirmation_sent,
                    notification_sent |-> notification_sent]
    IN
    /\ Len(contact_message) < MaxMessages
    /\ contact_message' = r.table
    /\ resp' = [NoResp EXCEPT !.op = "submit_contact_form",
                              !.authenticated = r.success,
                              !.count = r.contact_id, !.errors = r.errors,
                              !.current_data = {request}]
    /\ UNCHANGED <<now, users, coat_hanger, flask_session, next_hash, issued,
                   inflight, commits>>

\* ContactService.mark_confirmation_sent(contact_id)
MarkConfirmationSent(contact_id) ==
    LET r == mark_confirmation_sent(contact_message, contact_id, now) IN
    /\ contact_message' = r.table
    /\ resp' = [NoResp EXCEPT !.op = "mark_confirmation_sent",
                              !.authenticated = r.success, !.count = contact_id]
    /\ UNCHANGED <<now, users, coat_hanger, flask_session, next_hash, issued,
                   inflight, commits>>

\* ContactService.mark_admin_notified(contact_id)
MarkAdminNotified(contact_id) ==
    LET r == mark_admin_notified(contact_message, contact_id, now) IN
    /\ contact_message' = r.table
    /\ resp' = [NoResp EXCEPT !.op = "mark_admin_notified",
                              !.authenticated = r.success, !.count = contact_id]
    /\ UNCHANGED <<now, users, coat_hanger, flask_session, next_hash, issued,
                   inflight, commits>>

ContactNames == {<<>>, <<"A">>, <<" ", "A", "l", " ">>, <<"A", "1">>, <<"O", "'", "N">>}
ContactEmails == {<<>>, EmailA, EmailAMixed, EmailBad}
Subject4 == <<"H", "e", "l", "p">>
Subject5 == <<"H", "e", "l", "l", "o">>
SubjectPadded == <<" ", "H", "e", "l", "p", " ">>
SubjectHtml == <<"<", "b", ">", "H", "i">>
ContactSubjects == {<<>>, Subject4, Subject5, SubjectPadded, SubjectHtml}
Message9 == <<"1", "2", "3", "4", "5", "6", "7", "8", "9">>
Message10 == Message9 \o <<"0">>
ContactTexts == {<<>>, Message9, Message10}

InitContact ==
    /\ now = 0
    /\ users = [u \in UserIds |->
                  IF u = 1 THEN SeedUser(EmailA, NameA, PwA)
                           ELSE SeedUser(EmailB, NameB, PwB)]
    /\ coat_hanger = {}
    /\ flask_session = [c \in Clients |-> EmptySession]
    /\ next_hash = 0
    /\ issued = <<>>
    /\ inflight = [c \in Clients |-> NoUser]
    /\ commits = 0
    /\ contact_message = <<>>
    /\ resp = NoResp

NextContact ==
    \/ /\ resp = NoResp
       /\ \E n \in ContactNames, e \in ContactEmails, s \in ContactSubjects,
             m \in ContactTexts, c1 \in BOOLEAN, c2 \in BOOLEAN :
             Contact(n, e, s, m, c1, c2)
    \/ /\ resp = NoResp
       /\ \E n \in ContactNames, e \in ContactEmails, s \in ContactSubjects,
             m \in ContactTexts, c1 \in BOOLEAN, c2 \in BOOLEAN :
             SubmitContactForm(n, e, s, m, c1, c2)
    \/ /\ resp = NoResp
       /\ \E i \in 1..MaxMessages : MarkConfirmationSent(i)
    \/ /\ resp = NoResp
       /\ \E i \in 1..MaxMessages : MarkAdminNotified(i)
    \/ Receive

SpecContact == InitContact /\ [][NextContact]_vars

\* C19: submit_contact_form adds exactly one row to contact_message if and
\* only if it reports success; a submission with an empty field or an invalid
\* field (such as a subject of 4 characters) adds none and reports failure;
\* a submission whose fields are all valid adds one row and reports success
\* whatever the two email sends returned.
C19_OneRowIffSuccess ==
    [][resp'.op \in {"contact", "submit_contact_form"}
       => \A q \in resp'.current_data :
             LET added == contact_message' # contact_message
                 invalid ==
                    \/ <<>> \in {q.name, q.email, q.subject, q.message}
                    \/ Len(strip(q.name)) \notin MIN_NAME_LENGTH..MAX_NAME_LENGTH
                    \/ ~AllIn(q.name, Letters \cup Whitespace \cup {"'", "-"})
                    \/ ~email_pattern(strip(q.email))
                    \/ Len(strip(q.subject))
                          \notin MIN_SUBJECT_LENGTH..MAX_SUBJECT_LENGTH
                    \/ Len(strip(q.message))
                          \notin MIN_MESSAGE_LENGTH..MAX_MESSAGE_LENGTH
             IN
             /\ added <=> resp'.authenticated
             /\ added => /\ Len(contact_message') = Len(contact_message) + 1
                         /\ SubSeq(contact_message', 1, Len(contact_message))
                               = contact_message
             /\ resp'.authenticated <=> ~invalid
             /\ (resp'.op = "contact")
                => (resp'.status = 201 <=> resp'.authenticated)]_vars

\* C19 witness: a valid submission was stored as the only row and reported
\* as a success although both sends failed
C19_Witness ==
    /\ resp.op = "submit_contact_form"
    /\ resp.authenticated
    /\ \E q \in resp.current_data : ~q.confirmation_sent /\ ~q.notification_sent
    /\ Len(contact_message) = 1

\* C28 (as claimed): in every contact row the two delivery-tracking pairs are
\* consistent and independent: the confirmation flag is true exactly when the
\* confirmation send of the row succeeded or the row was marked sent, and then
\* its timestamp is set; the admin flag is true exactly when the admin send
\* succeeded or the row was marked notified, and then its timestamp is set; a
\* step that sets one pair leaves the other alone; a true flag stays true.
C28_DeliveryPairsConsistent ==
    [][/\ \A i \in DOMAIN contact_message' :
            /\ contact_message'[i].confirmation_email_sent
                  => contact_message'[i].confirmation_email_sent_at # {}
            /\ contact_message'[i].admin_email_sent
                  => contact_message'[i].admin_email_sent_at # {}
       /\ \A i \in DOMAIN contact_message :
            /\ i \in DOMAIN contact_message'
            /\ contact_message[i].confirmation_email_sent
                  => contact_message'[i].confirmation_email_sent
            /\ contact_message[i].admin_email_sent
                  => contact_message'[i].admin_email_sent
            /\ resp'.op = "mark_confirmation_sent"
                  => /\ contact_message'[i].admin_email_sent
                          = contact_message[i].admin_email_sent
                     /\ contact_message'[i].confirmation_email_sent
                          = (contact_message[i].confirmation_email_sent
                             \/ i = resp'.count)
            /\ resp'.op = "mark_admin_notified"
                  => /\ contact_message'[i].confirmation_email_sent
                          = contact_message[i].confirmation_email_sent
                     /\ contact_message'[i].admin_email_sent
                          = (contact_message[i].admin_email_sent \/ i = resp'.count)
       /\ (resp'.op \in {"contact", "submit_contact_form"}
           /\ Len(contact_message') > Len(contact_message))
          => \A q \in resp'.current_data :
                LET row == contact_message'[Len(contact_message')] IN
                /\ row.confirmation_email_sent = q.confirmation_sent
                /\ row.admin_email_sent = q.notification_sent]_vars

----------------------------------------------------------------------------
(* models/user_model.py, models/role_model.py *)

\* The rows of the role table, and the role names a caller may submit
Roles == {"admin", "superuser"}
RoleNames == Roles \cup {"ghost"}

\* A row of the user table as models/user_model.py declares it, with the
\* rows of the user_role association table kept as the set `roles`
Account(email, name, pw) ==
    [email |-> email, full_name |-> name, password_hash |-> hash_password(pw, 0),
     is_active |-> TRUE, force_password_change |-> FALSE, roles |-> {},
     created_at |-> 0, updated_at |-> 0]

\* User.has_role
has_role(user, role_name) == role_name \in user.roles

\* User.add_role
add_role(user, role) ==
    IF ~has_role(user, role) THEN [user EXCEPT !.roles = @ \cup {role}] ELSE user

\* User.remove_role
remove_role(user, role) ==
    IF has_role(user, role) THEN [user EXCEPT !.roles = @ \ {role}] ELSE user

\* The query helpers the services layer calls on its models: the row with the
\* given primary key, the first row with the given email, the rows of a user
get_by_id(tbl, user_id) == IF user_id \in DOMAIN tbl THEN user_id ELSE NoUser
find_one_by(tbl, email) == find_by_email(tbl, email)
find_by(tbl, user_id) == {r \in tbl : r.user_id = user_id}

\* The Flask session of the services layer, which keeps the session token
\* under the key session_token; session.clear() leaves it absent
NoServicesSession == [session_token |-> NoHash]

----------------------------------------------------------------------------
(* services/user_services.py *)

InvalidCredentials == "Invalid email or password"
Deactivated == "Account has been deactivated. Please contact an administrator."
MustChangePassword == "You must change your password before continuing."

\* services AuthService.logout_all_sessions: the session table left behind
logout_all_sessions(tbl, user_id) == tbl \ find_by(tbl, user_id)

\* services AuthService.authenticate_user up to the creation of the session:
\* the user found (NoUser when the result carries none), success and message
services_authenticate_user(tbl, email, password) ==
    LET u == find_one_by(tbl, strip(lower(strip(lower(email))))) IN
    IF u = NoUser
    THEN [user |-> NoUser, success |-> FALSE, message |-> InvalidCredentials]
    ELSE IF ~tbl[u].is_active
    THEN [user |-> NoUser, success |-> FALSE, message |-> Deactivated]
    ELSE IF ~verify_password(password, tbl[u].password_hash)
    THEN [user |-> NoUser, success |-> FALSE, message |-> InvalidCredentials]
    ELSE IF tbl[u].force_password_change
    THEN [user |-> u, success |-> FALSE, message |-> MustChangePassword]
    ELSE [user |-> u, success |-> TRUE, message |-> ""]

\* services AuthService.create_session: the row CoatHanger.create inserts
services_create_session(user_id, token, t) ==
    [user_id |-> user_id, session_hash |-> token,
     user_data |-> [email |-> users[user_id].email,
                    full_name |-> users[user_id].full_name, id_key |-> "id",
                    last_login |-> t],
     created_at |-> t, updated_at |-> t]

\* Variant of soft_delete_user that leaves the user's session rows in place
soft_delete_user_keep_sessions(tbl, sessions, user_id) ==
    IF get_by_id(tbl, user_id) = NoUser
    THEN [success |-> FALSE, message |-> "User not found", users |-> tbl,
          sessions |-> sessions]
    ELSE [success |-> TRUE, message |-> "User deactivated successfully",
          users |-> [tbl EXCEPT ![user_id].is_active = FALSE,
                                ![user_id].updated_at = now],
          sessions |-> sessions]

\* UserService.soft_delete_user: the result and the tables left behind
soft_delete_user(tbl, sessions, user_id) ==
    IF get_by_id(tbl, user_id) = NoUser
    THEN [success |-> FALSE, message |-> "User not found", users |-> tbl,
          sessions |-> sessions]
    ELSE [success |-> TRUE, message |-> "User deactivated successfully",
          users |-> [tbl EXCEPT ![user_id].is_active = FALSE,
                                ![user_id].updated_at = now],
          sessions |-> logout_all_sessions(sessions, user_id)]

\* UserService.reactivate_user: the result and the user table left behind
reactivate_user(tbl, user_id) ==
    IF get_by_id(tbl, user_id) = NoUser
    THEN [success |-> FALSE, message |-> "User not found", users |-> tbl]
    ELSE [success |-> TRUE, message |-> "User reactivated successfully",
          users |-> IF tbl[user_id].is_active THEN tbl
                    ELSE [tbl EXCEPT ![user_id].is_active = TRUE,
                                     ![user_id].updated_at = now]]

\* UserService.force_password_change: the result and the tables left behind
force_password_change(tbl, sessions, user_id) ==
    IF get_by_id(tbl, user_id) = NoUser
    THEN [success |-> FALSE, message |-> "User not found", users |-> tbl,
          sessions |-> sessions]
    ELSE [success |-> TRUE,
          message |-> "User will be required to change password on next login",
          users |-> IF tbl[user_id].force_password_change THEN tbl
                    ELSE [tbl EXCEPT ![user_id].force_password_change = TRUE,
                                     ![user_id].updated_at = now],
          sessions |-> logout_all_sessions(sessions, user_id)]

\* Variant of change_user_role without the has_role checks
change_user_role_unchecked(tbl, user_id, role_name, action) ==
    IF get_by_id(tbl, user_id) = NoUser
    THEN [success |-> FALSE, message |-> "User not found", users |-> tbl]
    ELSE IF role_name \notin Roles
    THEN [success |-> FALSE, message |-> "Role not found", users |-> tbl]
    ELSE IF action = "add"
    THEN [success |-> TRUE, message |-> "role added to user",
          users |-> [tbl EXCEPT ![user_id] = add_role(@, role_name)]]
    ELSE IF action = "remove"
    THEN [success |-> TRUE, message |-> "role removed from user",
          users |-> [tbl EXCEPT ![user_id] = remove_role(@, role_name)]]
    ELSE [success |-> FALSE, message |-> "Invalid action", users |-> tbl]

\* UserService.change_user_role: the result and the user table left behind
change_user_role(tbl, user_id, role_name, action) ==
    IF get_by_id(tbl, user_id) = NoUser
    THEN [success |-> FALSE, message |-> "User not found", users |-> tbl]
    ELSE IF role_name \notin Roles
    THEN [success |-> FALSE, message |-> "Role not found", users |-> tbl]
    ELSE IF action = "add"
    THEN IF has_role(tbl[user_id], role_name)
         THEN [success |-> FALSE, message |-> "User already has role",
               users |-> tbl]
         ELSE [success |-> TRUE, message |-> "role added to user",
               users |-> [tbl EXCEPT ![user_id] = add_role(@, role_name)]]
    ELSE IF action = "remove"
    THEN IF ~has_role(tbl[user_id], role_name)
         THEN [success |-> FALSE, message |-> "User does not have role",
               users |-> tbl]
         ELSE [success |-> TRUE, message |-> "role removed from user",
               users |-> [tbl EXCEPT ![user_id] = remove_role(@, role_name)]]
    ELSE [success |-> FALSE, message |-> "Invalid action", users |-> tbl]

----------------------------------------------------------------------------
(* Calls of the services layer *)

\* services AuthService.authenticate_user(credentials) called for client c
ServicesLogin(c, email, password) ==
    LET a == services_authenticate_user(users, email, password)
        token == generate_session_hash
    IN
    /\ IF a.success
       THEN /\ next_hash < MaxHashes
            /\ coat_hanger' =
                 coat_hanger \cup {services_create_session(a.user, token, now)}
            /\ flask_session' = [flask_session EXCEPT ![c].session_token = token]
            /\ users' = [users EXCEPT ![a.user].updated_at = now]
            /\ next_hash' = token
            /\ issued' = Append(issued, a.user)
       ELSE UNCHANGED <<coat_hanger, flask_session, users, next_hash, issued>>
    /\ resp' = [NoResp EXCEPT !.op = "services_login", !.client = c,
                              !.authenticated = a.success,
                              !.user_id = find_one_by(users, strip(lower(email))),
                              !.hash = IF a.success THEN token ELSE NoHash,
                              !.outcome = a.message]
    /\ UNCHANGED <<contact_message, now, inflight, commits>>

\* services/decorators.py login_required in front of a handler without
\* effects of its own
ServicesGuard(c) ==
    LET token == flask_session[c].session_token
        rows == {r \in coat_hanger : r.session_hash = token}
        live == {r \in rows : ~(r.updated_at < now - SESSION_TIMEOUT_SECONDS)}
    IN
    /\ coat_hanger' =
         IF token = NoHash THEN coat_hanger
         ELSE (coat_hanger \ rows) \cup {[r EXCEPT !.updated_at = now] : r \in live}
    /\ flask_session' =
         IF token # NoHash /\ live = {}
         THEN [flask_session EXCEPT ![c] = NoServicesSession]
         ELSE flask_session
    /\ resp' = [NoResp EXCEPT !.op = "services_guard", !.client = c,
                              !.hash = token,
                              !.authenticated = (token # NoHash /\ live # {}),
                              !.status = IF token # NoHash /\ live # {}
                                         THEN 200 ELSE 302]
    /\ UNCHANGED <<contact_message, now, users, next_hash, issued, inflight, commits>>

\* UserService.soft_delete_user(user_id)
SoftDeleteUser(user_id) ==
    LET r == soft_delete_user(users, coat_hanger, user_id) IN
    /\ users' = r.users
    /\ coat_hanger' = r.sessions
    /\ resp' = [NoResp EXCEPT !.op = "soft_delete", !.user_id = user_id,
                              !.authenticated = r.success, !.outcome = r.message]
    /\ UNCHANGED <<contact_message, now, flask_session, next_hash, issued, inflight, commits>>

\* UserService.reactivate_user(user_id)
ReactivateUser(user_id) ==
    LET r == reactivate_user(users, user_id) IN
    /\ users' = r.users
    /\ resp' = [NoResp EXCEPT !.op = "reactivate", !.user_id = user_id,
                              !.authenticated = r.success, !.outcome = r.message]
    /\ UNCHANGED <<contact_message, now, coat_hanger, flask_session, next_hash, issued, inflight,
                   commits>>

\* UserService.force_password_change(user_id)
ForcePasswordChange(user_id) ==
    LET r == force_password_change(users, coat_hanger, user_id) IN
    /\ users' = r.users
    /\ coat_hanger' = r.sessions
    /\ resp' = [NoResp EXCEPT !.op = "force_password_change",
                              !.user_id = user_id,
                              !.authenticated = r.success, !.outcome = r.message]
    /\ UNCHANGED <<contact_message, now, flask_session, next_hash, issued, inflight, commits>>

\* UserService.change_user_role(user_id, role_name, action); the response
\* record keeps the role name in `found` and the action in `errors`
ChangeUserRole(user_id, role_name, action) ==
    LET r == change_user_role(users, user_id, role_name, action) IN
    /\ users' = r.users
    /\ resp' = [NoResp EXCEPT !.op = "change_role", !.user_id = user_id,
                              !.authenticated = r.success,
                              !.found = role_name, !.errors = {action},
                              !.outcome = r.message]
    /\ UNCHANGED <<contact_message, now, coat_hanger, flask_session, next_hash, issued, inflight,
                   commits>>

RoleActions == {"add", "remove", "toggle"}

InitServices ==
    /\ now = 0
    /\ users = [u \in UserIds |->
                  IF u = 1 THEN Account(EmailA, NameA, PwA)
                           ELSE Account(EmailB, NameB, PwB)]
    /\ coat_hanger = {}
    /\ flask_session = [c \in Clients |-> NoServicesSession]
    /\ next_hash = 0
    /\ issued = <<>>
    /\ inflight = [c \in Clients |-> NoUser]
    /\ commits = 0
    /\ contact_message = <<>>
    /\ resp = NoResp

NextServices ==
    \/ /\ resp = NoResp
       /\ \E c \in Clients, e \in LoginEmails, p \in LoginPasswords :
             ServicesLogin(c, e, p)
    \/ /\ resp = NoResp
       /\ \E c \in Clients : ServicesGuard(c)
    \/ /\ resp = NoResp
       /\ \E u \in UserIds \cup {MissingUser} : SoftDeleteUser(u)
    \/ /\ resp = NoResp
       /\ \E u \in UserIds \cup {MissingUser} : ReactivateUser(u)
    \/ /\ resp = NoResp
       /\ \E u \in UserIds \cup {MissingUser} : ForcePasswordChange(u)
    \/ /\ resp = NoResp
       /\ \E u \in UserIds \cup {MissingUser}, r \in RoleNames, a \in RoleActions :
             ChangeUserRole(u, r, a)
    \/ Receive

SpecServices == InitServices /\ [][NextServices]_vars

----------------------------------------------------------------------------
(* Properties of the services layer, checked under SpecServices *)

\* logic AuthService.authenticate_user up to the creation of the session:
\* success and message
authenticate_user(tbl, email, password) ==
    IF email = <<>> \/ password = <<>>
    THEN [success |-> FALSE, message |-> "Email and password are required"]
    ELSE IF find_by_email(tbl, strip(lower(email))) = NoUser
    THEN [success |-> FALSE, message |-> InvalidCredentials]
    ELSE IF ~verify_password(password,
                             tbl[find_by_email(tbl, strip(lower(email)))].password_hash)
    THEN [success |-> FALSE, message |-> InvalidCredentials]
    ELSE [success |-> TRUE, message |-> ""]

\* The part of the services result a caller is shown
Shown(result) == [success |-> result.success, message |-> result.message]

\* C12: for a non-empty email and password, a login with an unregistered
\* email and a login with a registered email and a wrong password get the
\* same answer from both authenticate implementations, whatever state the
\* registered account is in.
C12_SameAnswerForUnknownAndWrong ==
    \A e1 \in LoginEmails \ {<<>>}, e2 \in LoginEmails \ {<<>>},
       p \in LoginPasswords \ {<<>>} :
       LET u2 == find_one_by(users, strip(lower(e2))) IN
       (/\ find_one_by(users, strip(lower(e1))) = NoUser
        /\ u2 # NoUser
        /\ ~verify_password(p, users[u2].password_hash))
       => /\ authenticate_user(users, e1, p) = authenticate_user(users, e2, p)
          /\ Shown(services_authenticate_user(users, e1, p))
                = Shown(services_authenticate_user(users, e2, p))

\* A step in which the services layer answered a login for the account u
ServicesLoginFor(u) == resp'.op = "services_login" /\ resp'.user_id = u

\* What the claim and its amendment share: a successful soft_delete_user(u)
\* leaves u inactive and without session rows, a login for an inactive u
\* fails and changes no table, and only a successful reactivate_user(u) makes
\* u active again
DeactivationHolds(u) ==
    /\ (resp'.op = "soft_delete" /\ resp'.user_id = u /\ resp'.authenticated)
       => /\ ~users'[u].is_active
          /\ RowsOfUser(coat_hanger', u) = {}
    /\ (~users[u].is_active /\ ServicesLoginFor(u))
       => /\ ~resp'.authenticated
          /\ coat_hanger' = coat_hanger
          /\ flask_session' = flask_session
    /\ ~users'[u].is_active => RowsOfUser(coat_hanger', u) = {}
    /\ (~users[u].is_active /\ users'[u].is_active)
       => resp'.op = "reactivate" /\ resp'.user_id = u /\ resp'.authenticated
    /\ (resp'.op = "reactivate" /\ resp'.user_id = u /\ resp'.authenticated)
       => users'[u].is_active

\* The login of this step carried the password of the account u
CorrectPassword(u) ==
    \E p \in LoginPasswords :
       /\ verify_password(p, users[u].password_hash)
       /\ resp'.outcome = services_authenticate_user(users, users[u].email, p).message

\* The answers of the services login for the account u, in the state this
\* step leaves, to the passwords that verify
AnswersAfter(u) ==
    {services_authenticate_user(users', users'[u].email, p) :
        p \in {q \in LoginPasswords : verify_password(q, users'[u].password_hash)}}

\* This step is a successful reactivate_user(u)
Reactivated(u) ==
    resp'.op = "reactivate" /\ resp'.user_id = u /\ resp'.authenticated

\* C15 (as claimed): after a successful soft_delete_user(u), u has no session
\* rows and every login for u fails without creating a session row until
\* reactivate_user(u) succeeds; once reactivate_user(u) has succeeded, a login
\* with the correct password succeeds.
C15_ReactivatedLoginSucceeds ==
    [][\A u \in UserIds :
         /\ DeactivationHolds(u)
         /\ Reactivated(u) => \A a \in AnswersAfter(u) : a.success]_vars

\* C15 (amended): as above, but once reactivate_user(u) has succeeded a login
\* with the correct password succeeds, and creates one session row for u,
\* exactly when u is not flagged force_password_change; a flagged account is
\* told to change its password and gets no session row.
C15_DeactivationBlocksLogin ==
    [][\A u \in UserIds :
         /\ DeactivationHolds(u)
         /\ Reactivated(u)
            => \A a \in AnswersAfter(u) :
                  /\ a.success = ~users'[u].force_password_change
                  /\ ~a.success => a.message = MustChangePassword
         /\ (users[u].is_active /\ ServicesLoginFor(u) /\ CorrectPassword(u))
            => IF users[u].force_password_change
               THEN /\ ~resp'.authenticated
                    /\ resp'.outcome = MustChangePassword
                    /\ coat_hanger' = coat_hanger
               ELSE /\ resp'.authenticated
                    /\ RowsOfUser(coat_hanger', u)
                         = RowsOfUser(coat_hanger, u)
                             \cup RowsOfHash(coat_hanger', resp'.hash)
                    /\ RowsOfHash(coat_hanger, resp'.hash) = {}]_vars

\* C15 witness: user 1 logged in twice and only the second session row is
\* left: the first was removed by a deactivation, and the second login came
\* after the reactivation
C15_Witness ==
    /\ resp.op = "services_login"
    /\ resp.authenticated
    /\ resp.user_id = 1
    /\ issued = <<1, 1>>
    /\ Cardinality(RowsOfUser(coat_hanger, 1)) = 1
    /\ users[1].is_active
    /\ ~users[1].force_password_change

\* C20: change_user_role(u, r, 'add') when u holds r and
\* change_user_role(u, r, 'remove') when u does not hold r report failure
\* and leave the user table as it was; a successful add leaves has_role(u, r)
\* true and a successful remove leaves it false; no other role of u, no role
\* of another user and no other column changes.
C20_RoleChangeIdempotent ==
    [][(resp'.op = "change_role" /\ resp'.user_id \in UserIds
        /\ resp'.found \in Roles)
       => LET u == resp'.user_id
              r == resp'.found
              action == CHOOSE a \in resp'.errors : TRUE
              held == has_role(users[u], r)
          IN
          /\ (action = "add" /\ held) => ~resp'.authenticated /\ users' = users
          /\ (action = "remove" /\ ~held)
             => ~resp'.authenticated /\ users' = users
          /\ (action = "add" /\ ~held)
             => resp'.authenticated /\ has_role(users'[u], r)
          /\ (action = "remove" /\ held)
             => resp'.authenticated /\ ~has_role(users'[u], r)
          /\ \A v \in UserIds, q \in Roles :
                (v # u \/ q # r) => has_role(users'[v], q) = has_role(users[v], q)
          /\ \A v \in UserIds :
                users'[v] = [users[v] EXCEPT !.roles = users'[v].roles]]_vars

\* C20 witness: an add of a role the user already holds, next to another role
\* of the same user, was refused
C20_Witness ==
    /\ resp.op = "change_role"
    /\ resp.errors = {"add"}
    /\ resp.found = "admin"
    /\ ~resp.authenticated
    /\ resp.user_id \in UserIds
    /\ users[resp.user_id].roles = {"admin", "superuser"}

\* C22 (as claimed): after a successful services-layer login of user u, every
\* session row u had before the login is gone and u has exactly one row, whose
\* token no row held before.
C22_ServicesLoginSingleSession ==
    [][(resp'.op = "services_login" /\ resp'.authenticated)
       => LET u == resp'.user_id IN
          /\ RowsOfUser(coat_hanger, u) \cap coat_hanger' = {}
          /\ Cardinality(RowsOfUser(coat_hanger', u)) = 1
          /\ \A r \in RowsOfUser(coat_hanger', u) :
                /\ r.session_hash = resp'.hash
                /\ RowsOfHash(coat_hanger, r.session_hash) = {}]_vars

----------------------------------------------------------------------------
(* Registrations and profile updates served by concurrent workers *)

\* What a worker holds between its reads and its write
NoPending ==
    [op |-> "none", user_id |-> NoUser, data |-> NoData, loaded |-> {},
     email |-> <<>>, password |-> <<>>, full_name |-> <<>>]

\* User.email_exists: filter_by(email=email) with the text as it was passed
email_exists(tbl, email) == find_by_email(tbl, email) # NoUser

\* ValidationUtils.validate_password_strength as validate_registration_data
\* calls it (uppercase, lowercase and digit required): the message, "" if valid
registration_password_error(password, min_length) ==
    IF password = <<>> THEN "Password cannot be empty"
    ELSE IF Len(password) < min_length THEN "Password is too short"
    ELSE IF Len(password) > 128 THEN "Password must not exceed 128 characters"
    ELSE IF ~\E i \in DOMAIN password : password[i] \in UpperLetters
    THEN "Password must contain at least one uppercase letter"
    ELSE IF ~\E i \in DOMAIN password : password[i] \in LowerLetters
    THEN "Password must contain at least one lowercase letter"
    ELSE IF ~\E i \in DOMAIN password : password[i] \in Digits
    THEN "Password must contain at least one number"
    ELSE ""

\* AuthService.validate_registration_data: the errors, as (key, message) pairs
validate_registration_data(tbl, email, password, full_name) ==
    LET e1 == validate_email(email)
        e2 == registration_password_error(password, 8)
        e3 == validate_name(full_name, MIN_NAME_LENGTH, MAX_NAME_LENGTH)
    IN (IF e1 # "" THEN {<<"email", e1>>}
        ELSE IF email_exists(tbl, email) THEN {<<"email", "Email already exists">>}
        ELSE {})
       \cup (IF e2 # "" THEN {<<"password", e2>>} ELSE {})
       \cup (IF e3 # "" THEN {<<"name", e3>>} ELSE {})

\* The row register_user builds: User(email=email.lower().strip(), ...)
new_user(email, password, full_name, t) ==
    [SeedUser(strip(lower(email)), strip(full_name), password) EXCEPT
        !.password_hash = hash_password(password, t),
        !.created_at = t, !.updated_at = t]

\* Variant of save_user on a table without the unique index
save_user_no_index(tbl, row) == [ok |-> TRUE, table |-> Append(tbl, row)]

\* user.save() of a new row: the unique index on user.email refuses a row
\* whose email another row holds (IntegrityError)
save_user(tbl, row) ==
    IF \E u \in DOMAIN tbl : tbl[u].email = row.email
    THEN [ok |-> FALSE, table |-> tbl]
    ELSE [ok |-> TRUE, table |-> Append(tbl, row)]

\* db.session.commit() of update_profile by a worker that loaded the row as
\* `loaded` and holds the object `pending`: the UPDATE sets the attributes
\* that differ from the loaded ones (and the picture column when assigned)
\* in the row as it is now, and onupdate sets updated_at; the unique index on
\* user.email refuses an email another row holds
commit_loaded(tbl, user_id, loaded, pending, assigned, t) ==
    LET cur == tbl[user_id]
        dirty == {f \in DOMAIN loaded : pending[f] # loaded[f]}
                 \cup (IF assigned THEN {"profile_picture_data"} ELSE {})
        row == [f \in DOMAIN cur |->
                  IF f = "updated_at" THEN t
                  ELSE IF f \in dirty THEN pending[f] ELSE cur[f]]
    IN IF dirty = {} THEN [ok |-> TRUE, table |-> tbl]
       ELSE IF "email" \in dirty
               /\ \E u \in DOMAIN tbl : u # user_id /\ tbl[u].email = pending.email
       THEN [ok |-> FALSE, table |-> tbl]
       ELSE [ok |-> TRUE, table |-> [tbl EXCEPT ![user_id] = row]]

\* AuthService.register_user up to the end of validate_registration_data
RegisterUserValidate(w, email, password, full_name) ==
    LET errors == validate_registration_data(users, email, password, full_name) IN
    /\ inflight[w] = NoPending
    /\ Len(users) < Cardinality(UserIds) + 1
    /\ inflight' =
         IF errors # {} THEN inflight
         ELSE [inflight EXCEPT ![w] = [NoPending EXCEPT !.op = "register_user",
                                                        !.email = email,
                                                        !.password = password,
                                                        !.full_name = full_name]]
    /\ resp' = IF errors # {}
               THEN [NoResp EXCEPT !.op = "register_user", !.client = w,
                                   !.status = 400, !.errors = errors,
                                   !.current_data = {email}]
               ELSE [NoResp EXCEPT !.op = "validated", !.client = w]
    /\ UNCHANGED <<contact_message, now, users, coat_hanger, flask_session,
                   next_hash, issued, commits>>

\* AuthService.register_user from hash_password on: the row is saved, or the
\* exception of save() is turned into "Registration failed"
RegisterUserSave(w) ==
    LET p == inflight[w]
        s == save_user(users, new_user(p.email, p.password, p.full_name, now))
    IN
    /\ p.op = "register_user"
    /\ users' = s.table
    /\ now' = IF s.ok THEN now + 1 ELSE now
    /\ inflight' = [inflight EXCEPT ![w] = NoPending]
    /\ resp' = [NoResp EXCEPT !.op = "register_user", !.client = w,
                              !.status = IF s.ok THEN 201 ELSE 400,
                              !.authenticated = s.ok,
                              !.user_id = IF s.ok THEN Len(s.table) ELSE NoUser,
                              !.outcome = IF s.ok THEN "ok" ELSE "Registration failed",
                              !.current_data = {p.email}]
    /\ UNCHANGED <<contact_message, coat_hanger, flask_session, next_hash,
                   issued, commits>>

\* ProfileService.update_profile up to the end of validate_profile_data: the
\* row is loaded, the conflict check and the validation are made
UpdateProfileLoad(w, user_id, data) ==
    LET r == update_profile(users, user_id, data, data.updated_at, now) IN
    /\ inflight[w] = NoPending
    /\ inflight' =
         IF r.outcome # "ok" THEN inflight
         ELSE [inflight EXCEPT ![w] = [NoPending EXCEPT !.op = "update_profile",
                                                        !.user_id = user_id,
                                                        !.data = data,
                                                        !.loaded = {users[user_id]}]]
    /\ resp' = IF r.outcome # "ok"
               THEN [NoResp EXCEPT !.op = "update_profile", !.client = w,
                                   !.status = status_of(r.outcome),
                                   !.user_id = user_id, !.outcome = r.outcome,
                                   !.data = data, !.errors = r.errors]
               ELSE [NoResp EXCEPT !.op = "validated", !.client = w]
    /\ UNCHANGED <<contact_message, now, users, coat_hanger, flask_session,
                   next_hash, issued, commits>>

\* ProfileService.update_profile from "Update fields" on: the assignments, the
\* commit, the notification and the profile read back
UpdateProfileCommit(w) ==
    LET p == inflight[w]
        loaded == CHOOSE x \in p.loaded : TRUE
        pic == process_picture(assign_fields(loaded, p.data, now), p.data)
        s == commit_loaded(users, p.user_id, loaded, pic.user, pic.assigned, now)
        written == s.table # users
    IN
    /\ p.op = "update_profile"
    /\ users' = s.table
    /\ commits' = IF written THEN commits + 1 ELSE commits
    /\ commits' <= MaxCommits
    /\ now' = IF written THEN now + 1 ELSE now
    /\ inflight' = [inflight EXCEPT ![w] = NoPending]
    /\ resp' = [NoResp EXCEPT
                  !.op = "update_profile", !.client = w,
                  !.status = IF s.ok THEN 200 ELSE 500,
                  !.authenticated = s.ok, !.user_id = p.user_id,
                  !.outcome = IF s.ok THEN "ok" ELSE "error",
                  !.data = p.data,
                  !.notified = IF s.ok THEN email_change_notifications(loaded, p.data)
                               ELSE {},
                  !.current_data = IF s.ok
                                   THEN {to_dict(p.user_id, s.table[p.user_id])}
                                   ELSE {}]
    /\ UNCHANGED <<contact_message, coat_hanger, flask_session, next_hash, issued>>

RegistrationEmails == {EmailC, EmailCMixed, EmailAMixed, EmailBad}
\* Registrations: valid ones, and one with a weak password and a short name
Registrations ==
    {<<e, PwNew, NameNew>> : e \in RegistrationEmails} \cup {<<EmailC, PwWeak, NameShort>>}

\* Bodies of two clients that loaded the same version of the row of user 1
WorkerData ==
    {[NoData EXCEPT !.full_name = {n}, !.email = {e},
                    !.updated_at = isoformat_z(0)] :
        n \in {NameNew, NameB}, e \in {EmailA, EmailCMixed}}

InitWorkers ==
    /\ now = 1
    /\ users = [u \in UserIds |->
                  IF u = 1 THEN SeedUser(EmailA, NameA, PwA)
                           ELSE SeedUser(EmailB, NameB, PwB)]
    /\ coat_hanger = {}
    /\ flask_session = [c \in Clients |-> EmptySession]
    /\ next_hash = 0
    /\ issued = <<>>
    /\ inflight = [w \in Clients |-> NoPending]
    /\ commits = 0
    /\ contact_message = <<>>
    /\ resp = NoResp

NextWorkers ==
    \/ \E w \in Clients, r \in Registrations :
          RegisterUserValidate(w, r[1], r[2], r[3])
    \/ \E w \in Clients : RegisterUserSave(w)
    \/ \E w \in Clients, d \in WorkerData : UpdateProfileLoad(w, 1, d)
    \/ \E w \in Clients : UpdateProfileCommit(w)

SpecWorkers == InitWorkers /\ [][NextWorkers]_vars

\* Two emails that are equal when compared case-insensitively
SameEmail(a, b) == lower(a) = lower(b)

\* C26: after any interleaving of registrations and profile email changes no
\* two user rows hold emails that are equal case-insensitively, and an
\* operation that would create such a duplicate (also a registration whose
\* email differs from an existing one only in letter case or surrounding
\* whitespace) reports failure and leaves the user rows as they are.
C26_EmailsStayUnique ==
    [][/\ \A u, v \in DOMAIN users' :
            u # v => ~SameEmail(users'[u].email, users'[v].email)
       /\ resp'.op = "register_user"
          => \A e \in resp'.current_data :
                (\E u \in DOMAIN users : SameEmail(users[u].email, strip(e)))
                => /\ ~resp'.authenticated
                   /\ resp'.status = 400
                   /\ users' = users
       /\ (resp'.op = "update_profile" /\ resp'.user_id \in DOMAIN users)
          => \A e \in resp'.data.email :
                (/\ \A row \in inflight[resp'.client].loaded \cup {users[resp'.user_id]} :
                       row.email # lower(strip(e))
                 /\ \E u \in DOMAIN users :
                       u # resp'.user_id /\ SameEmail(users[u].email, strip(e)))
                => /\ resp'.outcome # "ok"
                   /\ resp'.status # 200
                   /\ users' = users]_vars

\* C26 witness: two workers validated the registration of c@x.io while no
\* row held it; one saved its row, and the save of the other was refused
C26_Witness ==
    /\ resp.op = "register_user"
    /\ resp.outcome = "Registration failed"
    /\ resp.current_data \subseteq {EmailC, EmailCMixed}
    /\ Len(users) = 3
    /\ users[3].email = EmailC
    /\ \A w \in Clients : inflight[w] = NoPending

\* C29 (as claimed): lost updates are prevented under concurrency: of two
\* update_profile requests for the same user that carry the same
\* client_seen_at and are served with their load, check and write steps
\* interleaved, at most one succeeds and the other fails with ConcurrentEdit;
\* a successful update never replaces a full_name that was committed after
\* the version its client had seen.
C29_NoLostUpdate ==
    [][(/\ resp'.op = "update_profile"
        /\ resp'.outcome = "ok"
        /\ users'[resp'.user_id].full_name # users[resp'.user_id].full_name
        /\ \E row \in inflight[resp'.client].loaded :
              row.full_name # users[resp'.user_id].full_name
        /\ resp'.data.updated_at.kind = "iso"
        /\ resp'.data.updated_at.off = 0)
       => users[resp'.user_id].updated_at <= resp'.data.updated_at.wall]_vars


----------------------------------------------------------------------------
(* Services logins interleaved with account deactivation *)

\* services AuthService.authenticate_user up to the call of create_session:
\* worker c has loaded the user and passed the is_active, password and
\* force_password_change checks
ServicesLoginBegin(c, email, password) ==
    LET a == services_authenticate_user(users, email, password) IN
    /\ inflight[c] = NoUser
    /\ inflight' = [inflight EXCEPT ![c] = IF a.success THEN a.user ELSE NoUser]
    /\ resp' = [NoResp EXCEPT !.op = IF a.success THEN "services_login_checked"
                                     ELSE "services_login",
                              !.client = c,
                              !.user_id = find_one_by(users, strip(lower(email))),
                              !.outcome = a.message]
    /\ UNCHANGED <<contact_message, now, users, coat_hanger, flask_session,
                   next_hash, issued, commits>>

\* services AuthService.create_session for the user worker c loaded, and the
\* successful return of authenticate_user
ServicesLoginFinish(c) ==
    LET token == generate_session_hash
        u == inflight[c]
    IN
    /\ u # NoUser
    /\ next_hash < MaxHashes
    /\ coat_hanger' = coat_hanger \cup {services_create_session(u, token, now)}
    /\ flask_session' = [flask_session EXCEPT ![c].session_token = token]
    /\ users' = [users EXCEPT ![u].updated_at = now]
    /\ next_hash' = token
    /\ issued' = Append(issued, u)
    /\ inflight' = [inflight EXCEPT ![c] = NoUser]
    /\ resp' = [NoResp EXCEPT !.op = "services_login", !.client = c,
                              !.authenticated = TRUE, !.user_id = u,
                              !.hash = token]
    /\ UNCHANGED <<contact_message, now, commits>>

NextServicesRace ==
    \/ /\ resp = NoResp
       /\ \E c \in Clients, e \in LoginEmails, p \in LoginPasswords :
             ServicesLoginBegin(c, e, p)
    \/ /\ resp = NoResp
       /\ \E c \in Clients : ServicesLoginFinish(c)
    \/ /\ resp = NoResp
       /\ \E c \in Clients : ServicesGuard(c)
    \/ /\ resp = NoResp
       /\ \E u \in UserIds \cup {MissingUser} : SoftDeleteUser(u)
    \/ /\ resp = NoResp
       /\ \E u \in UserIds \cup {MissingUser} : ReactivateUser(u)
    \/ Receive

SpecServicesRace == InitServices /\ [][NextServicesRace]_vars

\* C30 (as claimed): in the services layer a deactivated user never holds a
\* usable session: in every reachable state, also when a login of user u
\* interleaves with soft_delete_user(u), no session row belongs to a user whose
\* is_active flag is false, and login_required never forwards a request on a
\* row of a deactivated user.
C30_NoSessionForDeactivated ==
    /\ \A r \in coat_hanger : users[r.user_id].is_active
    /\ (resp.op = "services_guard" /\ resp.authenticated)
          => \A r \in coat_hanger :
                r.session_hash = resp.hash => users[r.user_id].is_active

============================================================================
